---- MODULE Spec2Model ----
(***************************************************************************)
(* The NFC amiibo tag device of src/core/hle/service/nfc: the device state *)
(* machine of nfc_device.cpp and the tag codec of amiibo_crypto.cpp.       *)
(*                                                                         *)
(* A tag image is a record with one field per field of the C++ structures. *)
(* Bytes are 0..255 and multi-byte serial numbers are byte sequences; the  *)
(* opaque payloads (Mii, name, salts, hashes) are small integers.  Fields  *)
(* of the images that no operation of nfc_device.cpp branches on           *)
(* (unknown, unknown2, hash / register_info_crc, crc, font_region,         *)
(* country_code_id, mii_extension, owner_mii_aes_ccm, application_id_byte, *)
(* amiibo_version) are left out of the records.                            *)
(***************************************************************************)
EXTENDS Integers, Sequences, FiniteSets, TLC

\* ------------------------------------------------------------------ bounds

\* Largest value of tag.file.write_counter the model lets a Flush reach.
MaxWriteCounter == 2
\* Largest value of tag.file.application_write_counter the model explores.
MaxAppWrites == 2
\* Number of cells of the application area (sizeof(ApplicationArea) scaled).
AreaCells == 2

\* ------------------------------------------------------------------ enums

DeviceStates ==
    {"NotInitialized", "Initialized", "SearchingForTag", "TagFound", "TagRemoved", "TagMounted"}

MountTargets == {"None", "Rom", "All"}

\* ----------------------------------------------------------- result codes

CommandInvalidForState == 512
AppDataUninitialized == 544
AmiiboNotSetup == 552
AppIdMismatch == 568
NotAnAmiibo == 524
CorruptedData == 536

\* ResultCode(description, ErrorModule::NFC, ErrorSummary::InvalidState, ErrorLevel::Status)
NfcResult(description) ==
    [description |-> description, module |-> "NFC", summary |-> "InvalidState", level |-> "Status"]

RESULT_SUCCESS ==
    [description |-> 0, module |-> "Common", summary |-> "Success", level |-> "Success"]

ResultWrongApplicationAreaSize == NfcResult(CommandInvalidForState)
ResultWrongDeviceState == NfcResult(CommandInvalidForState)
ResultWriteAmiiboFailed == NfcResult(CommandInvalidForState)
ResultTagRemoved == NfcResult(CommandInvalidForState)
ResultRegistrationIsNotInitialized == NfcResult(AmiiboNotSetup)
ResultApplicationAreaIsNotInitialized == NfcResult(AppDataUninitialized)
ResultCorruptedData == NfcResult(CorruptedData)
ResultWrongApplicationAreaId == NfcResult(AppIdMismatch)
ResultApplicationAreaExist == NfcResult(CommandInvalidForState)
ResultNotAnAmiibo == NfcResult(NotAnAmiibo)

IsError(result) == result.level # "Success"

\* ------------------------------------------------------------------ bytes

RECURSIVE XorBits(_, _, _)
XorBits(a, b, n) ==
    IF n = 0 THEN 0
    ELSE (((a % 2) + (b % 2)) % 2) + (2 * XorBits(a \div 2, b \div 2, n - 1))

\* a ^ b on u8 operands
Xor(a, b) == XorBits(a, b, 8)

\* ----------------------------------------------------------------- images

ZeroSettings ==
    [amiibo_initialized |-> 0, appdata_initialized |-> 0, write_date |-> 0,
     init_date |-> 0, crc_counter |-> 0, amiibo_name |-> 0]

ZeroArea == [i \in 1..AreaCells |-> 0]

ZeroModelInfo == [character_id |-> 0, constant_value |-> 0]

\* EncryptedAmiiboFile{}
ZeroUserMemory ==
    [hmac_data |-> 0, constant_value |-> 0, write_counter |-> 0,
     settings |-> ZeroSettings, owner_mii |-> 0, application_id |-> 0,
     application_write_counter |-> 0, application_area_id |-> 0,
     application_area |-> ZeroArea, hmac_tag |-> 0,
     model_info |-> ZeroModelInfo, keygen_salt |-> 0]

\* EncryptedNTAG215File{}: the hardware layout
ZeroEncrypted ==
    [uuid |-> <<0, 0, 0, 0, 0, 0, 0, 0, 0, 0>>, static_lock |-> 0,
     compability_container |-> <<0, 0, 0, 0>>, user_memory |-> ZeroUserMemory,
     dynamic_lock |-> 0, CFG0 |-> 0, CFG1 |-> 0, password |-> 0]

\* NTAG215File{}: the logical layout
ZeroTag ==
    [uuid2 |-> <<0, 0>>, static_lock |-> 0, compability_container |-> <<0, 0, 0, 0>>,
     hmac_data |-> 0, constant_value |-> 0, write_counter |-> 0,
     settings |-> ZeroSettings, owner_mii |-> 0, application_id |-> 0,
     application_write_counter |-> 0, application_area_id |-> 0,
     application_area |-> ZeroArea, hmac_tag |-> 0,
     uuid |-> <<0, 0, 0, 0, 0, 0, 0, 0>>, model_info |-> ZeroModelInfo,
     keygen_salt |-> 0, dynamic_lock |-> 0, CFG0 |-> 0, CFG1 |-> 0, password |-> 0]

\* The fixed values IsAmiiboValid compares against.  A u32 above 2^31 is
\* written as its four bytes, most significant first.
STATIC_LOCK == 57359
COMPABILITY_CONTAINER == <<238, 255, 16, 241>>
CONSTANT_VALUE == 165
MODEL_CONSTANT_VALUE == 2
CFG0_VALUE == 67108864
CFG1_VALUE == 95
\* CT, the cascade tag of ISO/IEC 14443-3
CT == 136

\* ------------------------------------------------------------- validation

\* The first serial self-check; C++ indices are 0-based, sequences 1-based.
UuidCheck0(uuid) == Xor(Xor(Xor(CT, uuid[1]), uuid[2]), uuid[3]) = uuid[4]

UuidCheck1(uuid) == Xor(Xor(Xor(uuid[5], uuid[6]), uuid[7]), uuid[8]) = uuid[9]

\* IsAmiiboValid without its last comparison: a faulty variant, which lets
\* an image with a wrong CFG1 through.
IsAmiiboValidNoCfg1(ntag_file) ==
    LET amiibo_data == ntag_file.user_memory
    IN  /\ UuidCheck0(ntag_file.uuid)
        /\ UuidCheck1(ntag_file.uuid)
        /\ ntag_file.static_lock = STATIC_LOCK
        /\ ntag_file.compability_container = COMPABILITY_CONTAINER
        /\ amiibo_data.constant_value = CONSTANT_VALUE
        /\ amiibo_data.model_info.constant_value = MODEL_CONSTANT_VALUE
        /\ ntag_file.CFG0 = CFG0_VALUE

IsAmiiboValid(ntag_file) ==
    LET amiibo_data == ntag_file.user_memory
    IN  /\ UuidCheck0(ntag_file.uuid)
        /\ UuidCheck1(ntag_file.uuid)
        /\ ntag_file.static_lock = STATIC_LOCK
        /\ ntag_file.compability_container = COMPABILITY_CONTAINER
        /\ amiibo_data.constant_value = CONSTANT_VALUE
        /\ amiibo_data.model_info.constant_value = MODEL_CONSTANT_VALUE
        /\ ntag_file.CFG0 = CFG0_VALUE
        /\ ntag_file.CFG1 = CFG1_VALUE

\* ------------------------------------------------------------------ codec

NfcDataToEncodedData(nfc_data) ==
    [uuid2 |-> SubSeq(nfc_data.uuid, 9, 10),
     static_lock |-> nfc_data.static_lock,
     compability_container |-> nfc_data.compability_container,
     hmac_data |-> nfc_data.user_memory.hmac_data,
     constant_value |-> nfc_data.user_memory.constant_value,
     write_counter |-> nfc_data.user_memory.write_counter,
     settings |-> nfc_data.user_memory.settings,
     owner_mii |-> nfc_data.user_memory.owner_mii,
     application_id |-> nfc_data.user_memory.application_id,
     application_write_counter |-> nfc_data.user_memory.application_write_counter,
     application_area_id |-> nfc_data.user_memory.application_area_id,
     application_area |-> nfc_data.user_memory.application_area,
     hmac_tag |-> nfc_data.user_memory.hmac_tag,
     uuid |-> SubSeq(nfc_data.uuid, 1, 8),
     model_info |-> nfc_data.user_memory.model_info,
     keygen_salt |-> nfc_data.user_memory.keygen_salt,
     dynamic_lock |-> nfc_data.dynamic_lock,
     CFG0 |-> nfc_data.CFG0,
     CFG1 |-> nfc_data.CFG1,
     password |-> nfc_data.password]

\* EncodedDataToNfcData without the memcpy of uuid2 behind uuid: a faulty
\* variant, which leaves the last two bytes of the serial number zero.
EncodedDataToNfcDataNoUuid2(encoded_data) ==
    [uuid |-> encoded_data.uuid \o <<0, 0>>,
     static_lock |-> encoded_data.static_lock,
     compability_container |-> encoded_data.compability_container,
     user_memory |->
        [hmac_data |-> encoded_data.hmac_data,
         constant_value |-> encoded_data.constant_value,
         write_counter |-> encoded_data.write_counter,
         settings |-> encoded_data.settings,
         owner_mii |-> encoded_data.owner_mii,
         application_id |-> encoded_data.application_id,
         application_write_counter |-> encoded_data.application_write_counter,
         application_area_id |-> encoded_data.application_area_id,
         application_area |-> encoded_data.application_area,
         hmac_tag |-> encoded_data.hmac_tag,
         model_info |-> encoded_data.model_info,
         keygen_salt |-> encoded_data.keygen_salt],
     dynamic_lock |-> encoded_data.dynamic_lock,
     CFG0 |-> encoded_data.CFG0,
     CFG1 |-> encoded_data.CFG1,
     password |-> encoded_data.password]

EncodedDataToNfcData(encoded_data) ==
    [uuid |-> encoded_data.uuid \o encoded_data.uuid2,
     static_lock |-> encoded_data.static_lock,
     compability_container |-> encoded_data.compability_container,
     user_memory |->
        [hmac_data |-> encoded_data.hmac_data,
         constant_value |-> encoded_data.constant_value,
         write_counter |-> encoded_data.write_counter,
         settings |-> encoded_data.settings,
         owner_mii |-> encoded_data.owner_mii,
         application_id |-> encoded_data.application_id,
         application_write_counter |-> encoded_data.application_write_counter,
         application_area_id |-> encoded_data.application_area_id,
         application_area |-> encoded_data.application_area,
         hmac_tag |-> encoded_data.hmac_tag,
         model_info |-> encoded_data.model_info,
         keygen_salt |-> encoded_data.keygen_salt],
     dynamic_lock |-> encoded_data.dynamic_lock,
     CFG0 |-> encoded_data.CFG0,
     CFG1 |-> encoded_data.CFG1,
     password |-> encoded_data.password]

\* ----------------------------------------------------------------- cipher

\* Cipher(keys, in_data, out_data): the AES-CTR call over the span from
\* settings up to hmac_tag is commented out in the source, so the fields of
\* that span, and the two MAC fields, keep the value out_data had; keys is
\* read only into locals.  The operator returns out_data after the call.
Cipher(in_data, out_data) ==
    [out_data EXCEPT
        !.uuid2 = in_data.uuid2,
        !.static_lock = in_data.static_lock,
        !.compability_container = in_data.compability_container,
        !.constant_value = in_data.constant_value,
        !.write_counter = in_data.write_counter,
        !.uuid = in_data.uuid,
        !.model_info = in_data.model_info,
        !.keygen_salt = in_data.keygen_salt,
        !.dynamic_lock = in_data.dynamic_lock,
        !.CFG0 = in_data.CFG0,
        !.CFG1 = in_data.CFG1,
        !.password = in_data.password]

\* The key file key_retail.bin is "none" (absent), "short" (present, but
\* shorter than two InternalKey records) or "ok".
KeyFiles == {"none", "short", "ok"}

\* IsKeyAvailable answering for a key file that is not there: a faulty
\* variant, which sends a device without keys into DecodeAmiibo.
IsKeyAvailableAlways(key_file) == key_file \in KeyFiles

IsKeyAvailable(key_file) == key_file # "none"

LoadKeys(key_file) == key_file = "ok"

\* DecodeAmiibo comparing the data MAC only: a faulty variant, which does
\* not notice a changed tag MAC.
DecodeAmiiboDataMacOnly(key_file, encrypted_tag_data, tag_data) ==
    IF ~LoadKeys(key_file)
    THEN [ok |-> FALSE, tag_data |-> tag_data]
    ELSE LET encoded_data == NfcDataToEncodedData(encrypted_tag_data)
             decoded == Cipher(encoded_data, tag_data)
         IN  [ok |-> decoded.hmac_data = encrypted_tag_data.user_memory.hmac_data,
              tag_data |-> decoded]

\* DecodeAmiibo(encrypted_tag_data, tag_data): ok is the returned bool and
\* tag_data the output reference after the call.  The two mbedtls_md_hmac
\* calls are commented out in the source, so the MAC fields compared are
\* those tag_data held before the call.
DecodeAmiibo(key_file, encrypted_tag_data, tag_data) ==
    IF ~LoadKeys(key_file)
    THEN [ok |-> FALSE, tag_data |-> tag_data]
    ELSE LET encoded_data == NfcDataToEncodedData(encrypted_tag_data)
             decoded == Cipher(encoded_data, tag_data)
         IN  [ok |-> /\ decoded.hmac_data = encrypted_tag_data.user_memory.hmac_data
                     /\ decoded.hmac_tag = encrypted_tag_data.user_memory.hmac_tag,
              tag_data |-> decoded]

\* EncodeAmiibo(tag_data, encrypted_tag_data)
EncodeAmiibo(key_file, tag_data, encrypted_tag_data) ==
    IF ~LoadKeys(key_file)
    THEN [ok |-> FALSE, encrypted_tag_data |-> encrypted_tag_data]
    ELSE LET encoded_tag_data == Cipher(tag_data, ZeroTag)
         IN  [ok |-> TRUE, encrypted_tag_data |-> EncodedDataToNfcData(encoded_tag_data)]

\* ---------------------------------------------------------- the tag file

\* A file is the sequence of the cells it holds, in hardware order; one cell
\* per top-level field of EncryptedNTAG215File.  <<>> is a file of 0 bytes.
ToCells(e) ==
    <<e.uuid, e.static_lock, e.compability_container, e.user_memory,
      e.dynamic_lock, e.CFG0, e.CFG1, e.password>>

FromCells(c) ==
    [uuid |-> c[1], static_lock |-> c[2], compability_container |-> c[3],
     user_memory |-> c[4], dynamic_lock |-> c[5], CFG0 |-> c[6], CFG1 |-> c[7],
     password |-> c[8]]

\* sizeof(encrypted_tag.file), in cells
ImageCells == Len(ToCells(ZeroEncrypted))

\* IOFile::ReadBytes(&dst, sizeof(dst)): the number of cells read, and dst
\* after the read (the cells the file does not reach keep their value).
ReadBytes(file, dst) ==
    LET n == IF Len(file) < ImageCells THEN Len(file) ELSE ImageCells
        old == ToCells(dst)
    IN  [count |-> n,
         data |-> FromCells([i \in 1..ImageCells |-> IF i <= n THEN file[i] ELSE old[i]])]

NoFile == [exists |-> FALSE, data |-> <<>>]

FileOf(cells) == [exists |-> TRUE, data |-> cells]

\* ----------------------------------------------------------------- inputs

AmiiboPath == "amiibo.bin"
MissingPath == "missing.bin"
Paths == {AmiiboPath, MissingPath}

\* the raw dates of the days the clock passes through (0 is the zeroed field)
Dates == {1, 2}
\* outcome of opening and writing the tag file in Flush
IoOutcomes == {"ok", "open_fail", "write_fail"}
\* CryptoPP::AutoSeededRandomPool output, per byte or word
RandomBytes == {0, 1}
\* access ids a caller passes
AccessIds == {1, 2}
\* the caller's application data: up to one cell more than the area, all 7
AppData == {[i \in 1..n |-> 7] : n \in 1..(AreaCells + 1)}
\* the block GenerateBlock fills, as long as the application area
RandomBuffers == {[i \in 1..AreaCells |-> b] : b \in RandomBytes}
\* one draw of the random pool in a call: the block and a further word
RandomDraws == {[buffer |-> b, word |-> b[1]] : b \in RandomBuffers}
\* RegisterInfoPrivate a caller passes
RegisterInfos == {[mii_data |-> 5, amiibo_name |-> 6]}
\* ReadProgramId: the running title's id (0 would be a loader that fails)
ProgramIds == {3}
TagProtocols == {"All"}

\* counter_limit of nfc_types.h
counter_limit == 65535

\* A structurally valid image: serial 04 01 02 | 8F, 05 06 07 08 | 0C.
ValidUuid == <<4, 1, 2, 143, 5, 6, 7, 8, 12, 0>>

BaseUserMemory ==
    [ZeroUserMemory EXCEPT
        !.constant_value = CONSTANT_VALUE,
        !.model_info = [character_id |-> 1, constant_value |-> MODEL_CONSTANT_VALUE],
        !.keygen_salt = 1]

BaseImage ==
    [uuid |-> ValidUuid, static_lock |-> STATIC_LOCK,
     compability_container |-> COMPABILITY_CONTAINER, user_memory |-> BaseUserMemory,
     dynamic_lock |-> 1, CFG0 |-> CFG0_VALUE, CFG1 |-> CFG1_VALUE, password |-> 1]

\* ----------------------------------------------------------------- device

VARIABLES
    device_state,           \* NfcDevice::device_state
    mount_target,           \* NfcDevice::mount_target
    is_app_area_open,       \* NfcDevice::is_app_area_open
    is_data_moddified,      \* NfcDevice::is_data_moddified
    allowed_protocols,      \* NfcDevice::allowed_protocols
    amiibo_filename,        \* NfcDevice::amiibo_filename
    tag,                    \* NfcDevice::tag.file, the decoded image
    encrypted_tag,          \* NfcDevice::encrypted_tag.file
    tag_in_range_event,     \* signaled state of the event
    tag_out_of_range_event, \* signaled state of the event
    files,                  \* the files the device reads and writes, by path
    key_file,               \* state of key_retail.bin
    today,                  \* the local day of the system clock
    last,                   \* the last call that changed anything, and its result
    opened_since_mount,     \* history: the area was opened in this mount, and
                            \* not deleted since
    hle_lock,               \* HLE::g_hle_lock: the thread that holds it
    frontend_pc             \* where the frontend thread is in its call

vars ==
    <<device_state, mount_target, is_app_area_open, is_data_moddified,
      allowed_protocols, amiibo_filename, tag, encrypted_tag,
      tag_in_range_event, tag_out_of_range_event, files, key_file, today, last,
      opened_since_mount, hle_lock, frontend_pc>>

\* The device and its files as one value, for the operations below.
Dev ==
    [device_state |-> device_state, mount_target |-> mount_target,
     is_app_area_open |-> is_app_area_open, is_data_moddified |-> is_data_moddified,
     allowed_protocols |-> allowed_protocols, amiibo_filename |-> amiibo_filename,
     tag |-> tag, encrypted_tag |-> encrypted_tag,
     tag_in_range_event |-> tag_in_range_event,
     tag_out_of_range_event |-> tag_out_of_range_event, files |-> files,
     key_file |-> key_file, today |-> today]

\* What a call leaves: the device after it, its return value and its output.
Ret(d, ret) == [d |-> d, ret |-> ret, out |-> "none"]

RetOut(d, ret, out) == [d |-> d, ret |-> ret, out |-> out]

\* The status of the `device_state != TagMounted` branch of each operation.
WrongState(d) ==
    IF d.device_state = "TagRemoved" THEN ResultTagRemoved ELSE ResultWrongDeviceState

\* mount_target == MountTarget::None || mount_target == MountTarget::Rom
IsReadOnly(d) == d.mount_target = "None" \/ d.mount_target = "Rom"

\* GetAmiiboDate(): the raw date of the local day
GetAmiiboDate(d) == d.today

\* LoadAmiibo without its state check: a faulty variant, which loads a tag
\* into a device that is not searching.
LoadAmiiboAnyState(d, filename) ==
    IF ~d.files[filename].exists THEN Ret(d, FALSE)
    ELSE LET read == ReadBytes(d.files[filename].data, d.encrypted_tag)
         IN  IF read.count = 0
             THEN Ret([d EXCEPT !.encrypted_tag = ZeroEncrypted], FALSE)
             ELSE Ret([d EXCEPT !.encrypted_tag = read.data,
                                !.amiibo_filename = filename,
                                !.device_state = "TagFound",
                                !.tag_out_of_range_event = FALSE,
                                !.tag_in_range_event = TRUE], TRUE)

LoadAmiibo(d, filename) ==
    IF d.device_state # "SearchingForTag" THEN Ret(d, FALSE)
    ELSE IF ~d.files[filename].exists THEN Ret(d, FALSE)
    ELSE LET read == ReadBytes(d.files[filename].data, d.encrypted_tag)
         IN  IF read.count = 0
             THEN Ret([d EXCEPT !.encrypted_tag = ZeroEncrypted], FALSE)
             ELSE Ret([d EXCEPT !.encrypted_tag = read.data,
                                !.amiibo_filename = filename,
                                !.device_state = "TagFound",
                                !.tag_out_of_range_event = FALSE,
                                !.tag_in_range_event = TRUE], TRUE)

Initialize(d) ==
    Ret([d EXCEPT !.device_state = "Initialized",
                  !.encrypted_tag = ZeroEncrypted,
                  !.tag = ZeroTag], "void")

\* StartDetection with the two state tests joined by || : a faulty variant,
\* which refuses in every state.
StartDetectionEitherTest(d, allowed_protocol) ==
    IF d.device_state # "Initialized" \/ d.device_state # "TagRemoved"
    THEN Ret(d, ResultWrongDeviceState)
    ELSE Ret([d EXCEPT !.device_state = "SearchingForTag",
                       !.allowed_protocols = allowed_protocol], RESULT_SUCCESS)

StartDetection(d, allowed_protocol) ==
    IF d.device_state # "Initialized" /\ d.device_state # "TagRemoved"
    THEN Ret(d, ResultWrongDeviceState)
    ELSE Ret([d EXCEPT !.device_state = "SearchingForTag",
                       !.allowed_protocols = allowed_protocol], RESULT_SUCCESS)

UpdateSettingsCrc(t) ==
    IF t.settings.crc_counter # counter_limit
    THEN [t EXCEPT !.settings.crc_counter = @ + 1]
    ELSE t

\* The file after Flush opened it "wb" and wrote the image: opening truncates.
WriteFile(file, io, image) ==
    IF io = "open_fail" THEN file
    ELSE IF io = "write_fail" THEN FileOf(<<>>)
    ELSE FileOf(ToCells(image))

\* Flush without the read-only test: a faulty variant, which writes through
\* a read-only mount.
FlushThroughReadOnly(d, io) ==
    IF d.device_state # "TagMounted" THEN Ret(d, WrongState(d))
    ELSE LET counted == [d.tag EXCEPT !.write_counter = (@ + 1) % 65536]
             encoded == EncodeAmiibo(d.key_file, counted, d.encrypted_tag)
             d1 == [d EXCEPT !.tag = counted, !.encrypted_tag = encoded.encrypted_tag_data]
         IN  IF ~encoded.ok THEN Ret(d1, ResultWriteAmiiboFailed)
             ELSE Ret([d1 EXCEPT !.files[d1.amiibo_filename] =
                                     WriteFile(@, io, d1.encrypted_tag),
                                 !.is_data_moddified = FALSE], RESULT_SUCCESS)

\* Flush dating every write: a faulty variant, which bumps the settings
\* counter also when the day has not changed.
FlushDatesEveryWrite(d, io) ==
    IF d.device_state # "TagMounted" THEN Ret(d, WrongState(d))
    ELSE IF IsReadOnly(d) THEN Ret(d, ResultWrongDeviceState)
    ELSE LET dated == UpdateSettingsCrc(
                          [d.tag EXCEPT !.settings.write_date = GetAmiiboDate(d)])
             counted == [dated EXCEPT !.write_counter = (@ + 1) % 65536]
             encoded == EncodeAmiibo(d.key_file, counted, d.encrypted_tag)
             d1 == [d EXCEPT !.tag = counted, !.encrypted_tag = encoded.encrypted_tag_data]
         IN  IF ~encoded.ok THEN Ret(d1, ResultWriteAmiiboFailed)
             ELSE LET d2 == [d1 EXCEPT !.files[d1.amiibo_filename] =
                                           WriteFile(@, io, d1.encrypted_tag)]
                  IN  IF io # "ok" THEN Ret(d2, ResultWriteAmiiboFailed)
                      ELSE Ret([d2 EXCEPT !.is_data_moddified = FALSE], RESULT_SUCCESS)

\* Flush with the write counter bumped ahead of the state check: a faulty
\* variant, which writes to the decoded image of a device that is not mounted.
FlushCountsFirst(d, io) ==
    LET counted == [d EXCEPT !.tag.write_counter = (@ + 1) % 65536]
    IN  IF d.device_state # "TagMounted" THEN Ret(counted, WrongState(d))
        ELSE IF IsReadOnly(d) THEN Ret(counted, ResultWrongDeviceState)
        ELSE Ret(counted, ResultWriteAmiiboFailed)

Flush(d, io) ==
    IF d.device_state # "TagMounted" THEN Ret(d, WrongState(d))
    ELSE IF IsReadOnly(d) THEN Ret(d, ResultWrongDeviceState)
    ELSE LET current_date == GetAmiiboDate(d)
             dated == IF d.tag.settings.write_date # current_date
                      THEN UpdateSettingsCrc([d.tag EXCEPT !.settings.write_date = current_date])
                      ELSE d.tag
             counted == [dated EXCEPT !.write_counter = (@ + 1) % 65536]
             encoded == EncodeAmiibo(d.key_file, counted, d.encrypted_tag)
             d1 == [d EXCEPT !.tag = counted, !.encrypted_tag = encoded.encrypted_tag_data]
         IN  IF ~encoded.ok THEN Ret(d1, ResultWriteAmiiboFailed)
             ELSE IF d1.amiibo_filename = "" THEN Ret(d1, ResultWriteAmiiboFailed)
             ELSE LET d2 == [d1 EXCEPT !.files[d1.amiibo_filename] =
                                           WriteFile(@, io, d1.encrypted_tag)]
                  IN  IF io # "ok" THEN Ret(d2, ResultWriteAmiiboFailed)
                      ELSE Ret([d2 EXCEPT !.is_data_moddified = FALSE], RESULT_SUCCESS)

\* Mount storing the target ahead of decoding: a faulty variant, which
\* leaves the target of a mount that failed.
MountTargetFirst(d, mount_target_) ==
    IF d.device_state # "TagFound" THEN Ret(d, ResultWrongDeviceState)
    ELSE IF ~IsAmiiboValid(d.encrypted_tag) THEN Ret(d, ResultNotAnAmiibo)
    ELSE IF ~IsKeyAvailable(d.key_file)
    THEN Ret([d EXCEPT !.device_state = "TagMounted", !.mount_target = "Rom"],
             RESULT_SUCCESS)
    ELSE LET decoded == DecodeAmiibo(d.key_file, d.encrypted_tag, d.tag)
             d1 == [d EXCEPT !.tag = decoded.tag_data, !.mount_target = mount_target_]
         IN  IF ~decoded.ok THEN Ret(d1, ResultCorruptedData)
             ELSE Ret([d1 EXCEPT !.device_state = "TagMounted"], RESULT_SUCCESS)

Mount(d, mount_target_) ==
    IF d.device_state # "TagFound" THEN Ret(d, ResultWrongDeviceState)
    ELSE IF ~IsAmiiboValid(d.encrypted_tag) THEN Ret(d, ResultNotAnAmiibo)
    ELSE IF ~IsKeyAvailable(d.key_file)
    THEN Ret([d EXCEPT !.device_state = "TagMounted", !.mount_target = "Rom"],
             RESULT_SUCCESS)
    ELSE LET decoded == DecodeAmiibo(d.key_file, d.encrypted_tag, d.tag)
             d1 == [d EXCEPT !.tag = decoded.tag_data]
         IN  IF ~decoded.ok THEN Ret(d1, ResultCorruptedData)
             ELSE Ret([d1 EXCEPT !.device_state = "TagMounted",
                                 !.mount_target = mount_target_], RESULT_SUCCESS)

\* Unmount flushing after the transition: a faulty variant, whose Flush is
\* refused for the device state and saves nothing.
UnmountFlushLast(d, io) ==
    IF d.device_state # "TagMounted" THEN Ret(d, WrongState(d))
    ELSE LET d1 == [d EXCEPT !.device_state = "TagFound",
                             !.mount_target = "None",
                             !.is_app_area_open = FALSE]
         IN  Ret(IF d.is_data_moddified THEN Flush(d1, io).d ELSE d1, RESULT_SUCCESS)

Unmount(d, io) ==
    IF d.device_state # "TagMounted" THEN Ret(d, WrongState(d))
    ELSE LET d1 == IF d.is_data_moddified THEN Flush(d, io).d ELSE d
         IN  Ret([d1 EXCEPT !.device_state = "TagFound",
                            !.mount_target = "None",
                            !.is_app_area_open = FALSE], RESULT_SUCCESS)

\* CloseAmiibo without the Unmount: a faulty variant, which removes a
\* mounted tag with its mount target and its open area left behind.
CloseAmiiboNoUnmount(d, io) ==
    Ret([d EXCEPT !.amiibo_filename = "",
                  !.device_state = "TagRemoved",
                  !.encrypted_tag = ZeroEncrypted,
                  !.tag = ZeroTag,
                  !.tag_in_range_event = FALSE,
                  !.tag_out_of_range_event = TRUE], "void")

\* The first statement of CloseAmiibo: a mounted tag is unmounted.
CloseAmiiboUnmount(d, io) ==
    IF d.device_state = "TagMounted" THEN Unmount(d, io).d ELSE d

\* The rest of CloseAmiibo: the tag is gone.
CloseAmiiboClear(d) ==
    [d EXCEPT !.amiibo_filename = "",
              !.device_state = "TagRemoved",
              !.encrypted_tag = ZeroEncrypted,
              !.tag = ZeroTag,
              !.tag_in_range_event = FALSE,
              !.tag_out_of_range_event = TRUE]

\* CloseAmiibo clearing the file name and the images ahead of the Unmount:
\* a faulty variant, whose flush has no file to write and nothing to save.
CloseAmiiboClearFirst(d, io) ==
    LET cleared == [d EXCEPT !.amiibo_filename = "",
                             !.encrypted_tag = ZeroEncrypted,
                             !.tag = ZeroTag]
    IN  Ret(CloseAmiiboClear(CloseAmiiboUnmount(cleared, io)), "void")

CloseAmiibo(d, io) == Ret(CloseAmiiboClear(CloseAmiiboUnmount(d, io)), "void")

\* StopDetection whose last test names TagRemoved only: a faulty variant,
\* which refuses to stop a search.
StopDetectionRemovedOnly(d, io) ==
    IF d.device_state = "Initialized" THEN Ret(d, RESULT_SUCCESS)
    ELSE LET d1 == IF d.device_state = "TagFound" \/ d.device_state = "TagMounted"
                   THEN CloseAmiibo(d, io).d
                   ELSE d
         IN  IF d1.device_state = "TagRemoved"
             THEN Ret([d1 EXCEPT !.device_state = "Initialized"], RESULT_SUCCESS)
             ELSE Ret(d1, ResultWrongDeviceState)

StopDetection(d, io) ==
    IF d.device_state = "Initialized" THEN Ret(d, RESULT_SUCCESS)
    ELSE LET d1 == IF d.device_state = "TagFound" \/ d.device_state = "TagMounted"
                   THEN CloseAmiibo(d, io).d
                   ELSE d
         IN  IF d1.device_state = "SearchingForTag" \/ d1.device_state = "TagRemoved"
             THEN Ret([d1 EXCEPT !.device_state = "Initialized"], RESULT_SUCCESS)
             ELSE Ret(d1, ResultWrongDeviceState)

Finalize(d, io) ==
    LET d1 == IF d.device_state = "TagMounted" THEN Unmount(d, io).d ELSE d
        d2 == IF d1.device_state = "SearchingForTag" \/ d1.device_state = "TagRemoved"
              THEN StopDetection(d1, io).d
              ELSE d1
    IN  Ret([d2 EXCEPT !.device_state = "NotInitialized"], "void")

\* ---------------------------------------------------------------- queries

FoundOrMounted(d) == d.device_state = "TagFound" \/ d.device_state = "TagMounted"

GetTagInfo2(d) ==
    IF ~FoundOrMounted(d) THEN Ret(d, WrongState(d))
    ELSE RetOut(d, RESULT_SUCCESS, [uuid |-> d.encrypted_tag.uuid])

GetTagInfo(d) ==
    IF ~FoundOrMounted(d) THEN Ret(d, WrongState(d))
    ELSE RetOut(d, RESULT_SUCCESS, [uuid |-> d.encrypted_tag.uuid])

GetCommonInfo(d) ==
    IF d.device_state # "TagMounted" THEN Ret(d, WrongState(d))
    ELSE IF IsReadOnly(d) THEN Ret(d, ResultWrongDeviceState)
    ELSE RetOut(d, RESULT_SUCCESS,
                [last_write_date |-> d.tag.settings.write_date,
                 write_counter |-> d.tag.write_counter,
                 character_id |-> d.tag.model_info.character_id,
                 application_area_size |-> AreaCells])

GetModelInfo(d) ==
    IF ~FoundOrMounted(d) THEN Ret(d, WrongState(d))
    ELSE RetOut(d, RESULT_SUCCESS,
                [character_id |-> d.encrypted_tag.user_memory.model_info.character_id])

GetRegisterInfo(d) ==
    IF d.device_state # "TagMounted" THEN Ret(d, WrongState(d))
    ELSE IF IsReadOnly(d) THEN Ret(d, ResultWrongDeviceState)
    ELSE IF d.tag.settings.amiibo_initialized = 0
    THEN Ret(d, ResultRegistrationIsNotInitialized)
    ELSE RetOut(d, RESULT_SUCCESS,
                [mii_data |-> d.tag.owner_mii,
                 amiibo_name |-> d.tag.settings.amiibo_name,
                 creation_date |-> d.tag.settings.init_date])

GetAdminInfo(d) ==
    IF d.device_state # "TagMounted" THEN Ret(d, WrongState(d))
    ELSE IF IsReadOnly(d) THEN Ret(d, ResultWrongDeviceState)
    ELSE LET has_area == d.tag.settings.appdata_initialized # 0
         IN  RetOut(d, RESULT_SUCCESS,
                    [application_id |-> IF has_area THEN d.tag.application_id ELSE 0,
                     application_area_id |->
                         IF has_area THEN d.tag.application_area_id ELSE 0,
                     crc_change_counter |-> d.tag.settings.crc_counter,
                     amiibo_initialized |-> d.tag.settings.amiibo_initialized])

\* ---------------------------------------------------------- register info

\* DeleteRegisterInfo without the reset of amiibo_initialized: a faulty
\* variant, which scrambles the register info and leaves it marked as set.
DeleteRegisterInfoKeepsFlag(d, buffer, random_date, io) ==
    IF d.device_state # "TagMounted" THEN Ret(d, WrongState(d))
    ELSE IF IsReadOnly(d) THEN Ret(d, ResultWrongDeviceState)
    ELSE IF d.tag.settings.amiibo_initialized = 0
    THEN Ret(d, ResultRegistrationIsNotInitialized)
    ELSE Flush([d EXCEPT !.tag.owner_mii = buffer[1],
                         !.tag.settings.amiibo_name = buffer[1],
                         !.tag.settings.init_date = random_date],
               io)

\* buffer is the block the random pool generated; owner_mii and amiibo_name
\* are both copied from its start, init_date is a further random word.
DeleteRegisterInfo(d, buffer, random_date, io) ==
    IF d.device_state # "TagMounted" THEN Ret(d, WrongState(d))
    ELSE IF IsReadOnly(d) THEN Ret(d, ResultWrongDeviceState)
    ELSE IF d.tag.settings.amiibo_initialized = 0
    THEN Ret(d, ResultRegistrationIsNotInitialized)
    ELSE Flush([d EXCEPT !.tag.owner_mii = buffer[1],
                         !.tag.settings.amiibo_name = buffer[1],
                         !.tag.settings.init_date = random_date,
                         !.tag.settings.amiibo_initialized = 0],
               io)

SetRegisterInfoPrivate(d, register_info, io) ==
    IF d.device_state # "TagMounted" THEN Ret(d, WrongState(d))
    ELSE IF IsReadOnly(d) THEN Ret(d, ResultWrongDeviceState)
    ELSE LET dated == IF d.tag.settings.amiibo_initialized = 0
                      THEN [d.tag.settings EXCEPT !.init_date = GetAmiiboDate(d),
                                                  !.write_date = GetAmiiboDate(d)]
                      ELSE d.tag.settings
         IN  Flush([d EXCEPT !.tag.settings =
                                 [dated EXCEPT !.amiibo_name = register_info.amiibo_name,
                                               !.amiibo_initialized = 1],
                             !.tag.owner_mii = register_info.mii_data],
                   io)

RestoreAmiibo(d) ==
    IF d.device_state # "TagMounted" THEN Ret(d, WrongState(d))
    ELSE IF IsReadOnly(d) THEN Ret(d, ResultWrongDeviceState)
    ELSE Ret(d, RESULT_SUCCESS)

\* ------------------------------------------------------- application area

\* The counter incremented without the comparison with counter_limit: a
\* faulty variant, which wraps in the 16 bits the spec gives the field.
BumpApplicationWriteCounterWraps(c) == (c + 1) % 65536

\* tag.file.application_write_counter after `if (c != counter_limit) c++`
BumpApplicationWriteCounter(c) == IF c # counter_limit THEN c + 1 ELSE c

\* The area after memcpy of data at its start and of the random buffer behind it.
FillArea(data, buffer) ==
    [i \in 1..AreaCells |-> IF i <= Len(data) THEN data[i] ELSE buffer[i - Len(data)]]

\* OpenApplicationArea without its comparison of the access id: a faulty
\* variant, which opens the area for any id.
OpenApplicationAreaAnyId(d, access_id) ==
    IF d.device_state # "TagMounted" THEN Ret(d, WrongState(d))
    ELSE IF IsReadOnly(d) THEN Ret(d, ResultWrongDeviceState)
    ELSE IF d.tag.settings.appdata_initialized = 0
    THEN Ret(d, ResultApplicationAreaIsNotInitialized)
    ELSE Ret([d EXCEPT !.is_app_area_open = TRUE], RESULT_SUCCESS)

OpenApplicationArea(d, access_id) ==
    IF d.device_state # "TagMounted" THEN Ret(d, WrongState(d))
    ELSE IF IsReadOnly(d) THEN Ret(d, ResultWrongDeviceState)
    ELSE IF d.tag.settings.appdata_initialized = 0
    THEN Ret(d, ResultApplicationAreaIsNotInitialized)
    ELSE IF d.tag.application_area_id # access_id THEN Ret(d, ResultWrongApplicationAreaId)
    ELSE Ret([d EXCEPT !.is_app_area_open = TRUE], RESULT_SUCCESS)

GetApplicationAreaId(d) ==
    IF d.device_state # "TagMounted" THEN RetOut(d, WrongState(d), 0)
    ELSE IF IsReadOnly(d) THEN RetOut(d, ResultWrongDeviceState, 0)
    ELSE IF d.tag.settings.appdata_initialized = 0
    THEN RetOut(d, ResultApplicationAreaIsNotInitialized, 0)
    ELSE RetOut(d, RESULT_SUCCESS, d.tag.application_area_id)

\* GetApplicationArea without its is_app_area_open test: a faulty variant,
\* which reads the area of any writable mount that has one.
GetApplicationAreaNoOpenTest(d, size) ==
    LET unset == [i \in 1..size |-> "unset"]
    IN  IF d.device_state # "TagMounted" THEN RetOut(d, WrongState(d), unset)
        ELSE IF IsReadOnly(d) THEN RetOut(d, ResultWrongDeviceState, unset)
        ELSE IF d.tag.settings.appdata_initialized = 0
        THEN RetOut(d, ResultApplicationAreaIsNotInitialized, unset)
        ELSE LET n == IF size > AreaCells THEN AreaCells ELSE size
             IN  RetOut(d, RESULT_SUCCESS, SubSeq(d.tag.application_area, 1, n))

\* size is data.size() of the caller's vector; out is the vector afterwards,
\* cells the call did not write shown as "unset".
GetApplicationArea(d, size) ==
    LET unset == [i \in 1..size |-> "unset"]
    IN  IF d.device_state # "TagMounted" THEN RetOut(d, WrongState(d), unset)
        ELSE IF IsReadOnly(d) THEN RetOut(d, ResultWrongDeviceState, unset)
        ELSE IF ~d.is_app_area_open THEN RetOut(d, ResultWrongDeviceState, unset)
        ELSE IF d.tag.settings.appdata_initialized = 0
        THEN RetOut(d, ResultApplicationAreaIsNotInitialized, unset)
        ELSE LET n == IF size > AreaCells THEN AreaCells ELSE size
             IN  RetOut(d, RESULT_SUCCESS, SubSeq(d.tag.application_area, 1, n))

SetApplicationArea(d, data, buffer) ==
    IF d.device_state # "TagMounted" THEN Ret(d, WrongState(d))
    ELSE IF IsReadOnly(d) THEN Ret(d, ResultWrongDeviceState)
    ELSE IF ~d.is_app_area_open THEN Ret(d, ResultWrongDeviceState)
    ELSE IF d.tag.settings.appdata_initialized = 0
    THEN Ret(d, ResultApplicationAreaIsNotInitialized)
    ELSE IF Len(data) > AreaCells THEN Ret(d, ResultWrongDeviceState)
    ELSE Ret([d EXCEPT !.tag.application_area = FillArea(data, buffer),
                       !.tag.application_write_counter = BumpApplicationWriteCounter(@),
                       !.is_data_moddified = TRUE], RESULT_SUCCESS)

\* program_id is what ReadProgramId stored, 0 when it did not succeed.
RecreateApplicationArea(d, access_id, data, buffer, program_id, io) ==
    IF d.device_state # "TagMounted" THEN Ret(d, WrongState(d))
    ELSE IF d.is_app_area_open THEN Ret(d, ResultWrongDeviceState)
    ELSE IF IsReadOnly(d) THEN Ret(d, ResultWrongDeviceState)
    ELSE IF Len(data) > AreaCells THEN Ret(d, ResultWrongApplicationAreaSize)
    ELSE Flush([d EXCEPT !.tag.application_area = FillArea(data, buffer),
                         !.tag.application_write_counter = BumpApplicationWriteCounter(@),
                         !.tag.application_id = IF program_id # 0 THEN program_id ELSE @,
                         !.tag.settings.appdata_initialized = 1,
                         !.tag.application_area_id = access_id],
               io)

\* CreateApplicationArea without its appdata_initialized test: a faulty
\* variant, which overwrites an area that exists.
CreateApplicationAreaOverExisting(d, access_id, data, buffer, program_id, io) ==
    IF d.device_state # "TagMounted" THEN Ret(d, WrongState(d))
    ELSE RecreateApplicationArea(d, access_id, data, buffer, program_id, io)

CreateApplicationArea(d, access_id, data, buffer, program_id, io) ==
    IF d.device_state # "TagMounted" THEN Ret(d, WrongState(d))
    ELSE IF d.tag.settings.appdata_initialized # 0 THEN Ret(d, ResultApplicationAreaExist)
    ELSE RecreateApplicationArea(d, access_id, data, buffer, program_id, io)

\* buffer resets the area, and its first bytes the application id.
DeleteApplicationArea(d, buffer, random_id, io) ==
    IF d.device_state # "TagMounted" THEN Ret(d, WrongState(d))
    ELSE IF IsReadOnly(d) THEN Ret(d, ResultWrongDeviceState)
    ELSE IF d.tag.settings.appdata_initialized = 0
    THEN Ret(d, ResultApplicationAreaIsNotInitialized)
    ELSE Flush([d EXCEPT !.tag.application_write_counter = BumpApplicationWriteCounter(@),
                         !.tag.application_area = buffer,
                         !.tag.application_id = buffer[1],
                         !.tag.application_area_id = random_id,
                         !.tag.settings.appdata_initialized = 0,
                         !.is_app_area_open = FALSE],
               io)

ApplicationAreaExist(d) ==
    IF d.device_state # "TagMounted" THEN Ret(d, WrongState(d))
    ELSE IF IsReadOnly(d) THEN Ret(d, ResultWrongDeviceState)
    ELSE RetOut(d, RESULT_SUCCESS, d.tag.settings.appdata_initialized # 0)

\* Format reporting the error of DeleteRegisterInfo before that of
\* DeleteApplicationArea: a faulty variant.
FormatRegisterInfoFirst(d, buffer, random_id, buffer2, random_date, io, io2) ==
    LET r1 == DeleteApplicationArea(d, buffer, random_id, io)
        r2 == DeleteRegisterInfo(r1.d, buffer2, random_date, io2)
    IN  IF IsError(r2.ret) THEN Ret(r2.d, r2.ret)
        ELSE IF IsError(r1.ret) THEN Ret(r2.d, r1.ret)
        ELSE Ret(r2.d, RESULT_SUCCESS)

\* Format runs both deletions, then reports the first error.
Format(d, buffer, random_id, buffer2, random_date, io, io2) ==
    LET r1 == DeleteApplicationArea(d, buffer, random_id, io)
        r2 == DeleteRegisterInfo(r1.d, buffer2, random_date, io2)
    IN  IF IsError(r1.ret) THEN Ret(r2.d, r1.ret)
        ELSE IF IsError(r2.ret) THEN Ret(r2.d, r2.ret)
        ELSE Ret(r2.d, RESULT_SUCCESS)

\* ------------------------------------------------------ tag files offered

\* key_retail.bin's two records, as the numbers the digests below mix in
unfixed_info == 1
locked_secret == 2

Sum4(s) == s[1] + s[2] + s[3] + s[4]

\* HMAC-SHA256 as a small digest.  A digest is never the all-zero value (0
\* is the value of a zeroed HashData field).
Digest(key, weight) == 1 + ((key + weight) % 3)

\* The bytes of DYNAMIC_LOCK_START - UUID_START from uuid: the serial number,
\* model_info and keygen_salt of the logical image.
UuidSpan(t) ==
    Sum4(SubSeq(t.uuid, 1, 4)) + Sum4(SubSeq(t.uuid, 5, 8)) + t.model_info.character_id
        + t.model_info.constant_value + t.keygen_salt

\* The bytes of HMAC_TAG_START - WRITE_COUNTER_START from write_counter.
DataSpan(t) ==
    t.write_counter + t.settings.amiibo_initialized + t.settings.appdata_initialized
        + t.settings.write_date + t.settings.init_date + t.settings.crc_counter
        + t.settings.amiibo_name + t.owner_mii + t.application_id
        + t.application_write_counter + t.application_area_id

\* The tag HMAC: over the uuid span, keyed by the locked-secret key set.
TagHmac(t) == Digest(locked_secret, UuidSpan(t))

\* The data HMAC: over the data span, the tag HMAC and the uuid span again,
\* keyed by the unfixed-info key set.
DataHmac(t) == Digest(unfixed_info, DataSpan(t) + TagHmac(t) + UuidSpan(t))

\* e with both MAC fields holding the MACs of its own content
Signed(e) ==
    LET t == NfcDataToEncodedData(e)
    IN  [e EXCEPT !.user_memory.hmac_data = DataHmac(t),
                  !.user_memory.hmac_tag = TagHmac(t)]

HasCorrectMacs(e) ==
    LET t == NfcDataToEncodedData(e)
    IN  /\ e.user_memory.hmac_data = DataHmac(t)
        /\ e.user_memory.hmac_tag = TagHmac(t)

\* e with one of the fields IsAmiiboValid checks altered (k = 0: none)
Altered(e, k) ==
    CASE k = 0 -> e
      [] k = 1 -> [e EXCEPT !.uuid[4] = Xor(@, 1)]
      [] k = 2 -> [e EXCEPT !.uuid[9] = Xor(@, 1)]
      [] k = 3 -> [e EXCEPT !.static_lock = 0]
      [] k = 4 -> [e EXCEPT !.compability_container = <<0, 0, 0, 0>>]
      [] k = 5 -> [e EXCEPT !.user_memory.constant_value = 0]
      [] k = 6 -> [e EXCEPT !.user_memory.model_info.constant_value = 0]
      [] k = 7 -> [e EXCEPT !.CFG0 = 0]
      [] k = 8 -> [e EXCEPT !.CFG1 = 0]

HashValues == 0..3

\* The tag files a user can offer: the base image with zeroed MAC fields and
\* with its correct MACs, each with one checked field altered; the base
\* image with one MAC field changed; and files cut short.
CandidateImages ==
    {Altered(e, k) : e \in {BaseImage, Signed(BaseImage)}, k \in 0..8}
        \cup {[BaseImage EXCEPT !.user_memory.hmac_data = 1],
              [BaseImage EXCEPT !.user_memory.hmac_tag = 2]}

CandidateFiles ==
    {ToCells(e) : e \in CandidateImages}
        \cup {SubSeq(ToCells(BaseImage), 1, n) : n \in {0, 3}}

\* ------------------------------------------------------------ the machine

Init ==
    /\ device_state = "NotInitialized"
    /\ mount_target = "None"
    /\ is_app_area_open = FALSE
    /\ is_data_moddified = FALSE
    /\ allowed_protocols = "None"
    /\ amiibo_filename = ""
    /\ tag = ZeroTag
    /\ encrypted_tag = ZeroEncrypted
    /\ tag_in_range_event = FALSE
    /\ tag_out_of_range_event = FALSE
    /\ \E c \in CandidateFiles :
          files = [p \in Paths |-> IF p = AmiiboPath THEN FileOf(c) ELSE NoFile]
    /\ key_file \in KeyFiles
    /\ today = 1
    /\ last = [op |-> "none", ret |-> "void"]
    /\ opened_since_mount = FALSE
    /\ hle_lock = "free"
    /\ frontend_pc = "idle"

\* A call that found an application area on the tag and left none.
AreaDeleted(before, after) ==
    /\ before.tag.settings.appdata_initialized # 0
    /\ after.tag.settings.appdata_initialized = 0

\* What operation op, leaving r, does to the device, the files and the
\* history.  last keeps the last call that changed the device or a file, and
\* what it returned.
DeviceStep(op, r) ==
    /\ r.d.tag.write_counter <= MaxWriteCounter
    /\ r.d.tag.application_write_counter <= MaxAppWrites
    /\ device_state' = r.d.device_state
    /\ mount_target' = r.d.mount_target
    /\ is_app_area_open' = r.d.is_app_area_open
    /\ is_data_moddified' = r.d.is_data_moddified
    /\ allowed_protocols' = r.d.allowed_protocols
    /\ amiibo_filename' = r.d.amiibo_filename
    /\ tag' = r.d.tag
    /\ encrypted_tag' = r.d.encrypted_tag
    /\ tag_in_range_event' = r.d.tag_in_range_event
    /\ tag_out_of_range_event' = r.d.tag_out_of_range_event
    /\ files' = r.d.files
    /\ key_file' = key_file
    /\ today' = today
    /\ last' = IF r.d = Dev THEN last ELSE [op |-> op, ret |-> r.ret]
    /\ opened_since_mount' =
          IF op = "Mount"
          THEN (IF r.ret = RESULT_SUCCESS THEN FALSE ELSE opened_since_mount)
          ELSE IF op = "OpenApplicationArea"
          THEN (IF r.ret = RESULT_SUCCESS THEN TRUE ELSE opened_since_mount)
          ELSE IF op \in {"DeleteApplicationArea", "Format"}
          THEN (IF AreaDeleted(Dev, r.d) THEN FALSE ELSE opened_since_mount)
          ELSE opened_since_mount

\* One call of operation op, leaving r, run to its end with the caller
\* holding g_hle_lock, which is free again when the call has returned.
Call(op, r) ==
    /\ DeviceStep(op, r)
    /\ hle_lock' = "free"
    /\ frontend_pc' = frontend_pc

\* The values an input drawn from S can take where it matters.  Outside
\* TagMounted every operation below that takes such an input returns at its
\* first state check, or has nothing to flush, and never reads it: one
\* representative is drawn there.
In(S) == IF device_state = "TagMounted" THEN S ELSE {CHOOSE x \in S : TRUE}

CallLoadAmiibo == \E filename \in Paths : Call("LoadAmiibo", LoadAmiibo(Dev, filename))

CallCloseAmiibo ==
    \E io \in In(IoOutcomes) :
        Call("CloseAmiibo", CloseAmiibo(Dev, io))

CallInitialize == Call("Initialize", Initialize(Dev))

CallFinalize ==
    \E io \in In(IoOutcomes) : Call("Finalize", Finalize(Dev, io))

CallStartDetection ==
    \E p \in TagProtocols : Call("StartDetection", StartDetection(Dev, p))

CallStopDetection ==
    \E io \in In(IoOutcomes) :
        Call("StopDetection", StopDetection(Dev, io))

CallMount == \E t \in MountTargets : Call("Mount", Mount(Dev, t))

CallUnmount ==
    \E io \in In(IoOutcomes) : Call("Unmount", Unmount(Dev, io))

CallFlush ==
    \E io \in In(IoOutcomes) : Call("Flush", Flush(Dev, io))

CallGetTagInfo2 == Call("GetTagInfo2", GetTagInfo2(Dev))

CallGetTagInfo == Call("GetTagInfo", GetTagInfo(Dev))

CallGetCommonInfo == Call("GetCommonInfo", GetCommonInfo(Dev))

CallGetModelInfo == Call("GetModelInfo", GetModelInfo(Dev))

CallGetRegisterInfo == Call("GetRegisterInfo", GetRegisterInfo(Dev))

CallGetAdminInfo == Call("GetAdminInfo", GetAdminInfo(Dev))

CallDeleteRegisterInfo ==
    \E rnd \in In(RandomDraws), io \in In(IoOutcomes) :
        Call("DeleteRegisterInfo", DeleteRegisterInfo(Dev, rnd.buffer, rnd.word, io))

CallSetRegisterInfoPrivate ==
    \E ri \in In(RegisterInfos), io \in In(IoOutcomes) :
        Call("SetRegisterInfoPrivate", SetRegisterInfoPrivate(Dev, ri, io))

CallRestoreAmiibo == Call("RestoreAmiibo", RestoreAmiibo(Dev))

CallFormat ==
    \E rnd \in In(RandomDraws), rnd2 \in In(RandomDraws), io \in In(IoOutcomes), io2 \in In(IoOutcomes) :
        Call("Format",
             Format(Dev, rnd.buffer, rnd.word, rnd2.buffer, rnd2.word, io, io2))

CallOpenApplicationArea ==
    \E id \in In(AccessIds) : Call("OpenApplicationArea", OpenApplicationArea(Dev, id))

CallGetApplicationAreaId == Call("GetApplicationAreaId", GetApplicationAreaId(Dev))

CallGetApplicationArea ==
    \E size \in In({1, AreaCells + 1}) :
        Call("GetApplicationArea", GetApplicationArea(Dev, size))

CallSetApplicationArea ==
    \E data \in In(AppData), buffer \in In(RandomBuffers) :
        Call("SetApplicationArea", SetApplicationArea(Dev, data, buffer))

CallCreateApplicationArea ==
    \E id \in In(AccessIds), data \in In(AppData), buffer \in In(RandomBuffers),
       pid \in ProgramIds, io \in In(IoOutcomes) :
        Call("CreateApplicationArea",
             CreateApplicationArea(Dev, id, data, buffer, pid, io))

CallRecreateApplicationArea ==
    \E id \in In(AccessIds), data \in In(AppData), buffer \in In(RandomBuffers),
       pid \in ProgramIds, io \in In(IoOutcomes) :
        Call("RecreateApplicationArea",
             RecreateApplicationArea(Dev, id, data, buffer, pid, io))

CallDeleteApplicationArea ==
    \E rnd \in In(RandomDraws), io \in In(IoOutcomes) :
        Call("DeleteApplicationArea",
             DeleteApplicationArea(Dev, rnd.buffer, rnd.word, io))

CallApplicationAreaExist == Call("ApplicationAreaExist", ApplicationAreaExist(Dev))

\* Midnight passes.
DayChanges ==
    /\ today + 1 \in Dates
    /\ today' = today + 1
    /\ UNCHANGED <<device_state, mount_target, is_app_area_open, is_data_moddified,
                   allowed_protocols, amiibo_filename, tag, encrypted_tag,
                   tag_in_range_event, tag_out_of_range_event, files, key_file, last,
                   opened_since_mount, hle_lock, frontend_pc>>

Next ==
    \/ CallLoadAmiibo
    \/ CallCloseAmiibo
    \/ CallInitialize
    \/ CallFinalize
    \/ CallStartDetection
    \/ CallStopDetection
    \/ CallMount
    \/ CallUnmount
    \/ CallFlush
    \/ CallGetTagInfo2
    \/ CallGetTagInfo
    \/ CallGetCommonInfo
    \/ CallGetModelInfo
    \/ CallGetRegisterInfo
    \/ CallGetAdminInfo
    \/ CallDeleteRegisterInfo
    \/ CallSetRegisterInfoPrivate
    \/ CallRestoreAmiibo
    \/ CallFormat
    \/ CallOpenApplicationArea
    \/ CallGetApplicationAreaId
    \/ CallGetApplicationArea
    \/ CallSetApplicationArea
    \/ CallCreateApplicationArea
    \/ CallRecreateApplicationArea
    \/ CallDeleteApplicationArea
    \/ CallApplicationAreaExist
    \/ DayChanges

Spec == Init /\ [][Next]_vars

\* ------------------------------------------------------------ two threads

\* The frontend thread and the thread that serves the guest's requests, each
\* taking g_hle_lock around its call of the device.  The frontend's calls are
\* Module::Interface::LoadAmiibo and RemoveAmiibo; CloseAmiibo is taken in
\* its two parts, with the state between them.

\* Module::Interface::RemoveAmiibo entered without its lock_guard: a faulty
\* variant.
RemoveAmiiboNoLock ==
    /\ frontend_pc = "idle"
    /\ frontend_pc' = "CloseAmiibo"
    /\ UNCHANGED <<device_state, mount_target, is_app_area_open, is_data_moddified,
                   allowed_protocols, amiibo_filename, tag, encrypted_tag,
                   tag_in_range_event, tag_out_of_range_event, files, key_file,
                   today, last, opened_since_mount, hle_lock>>

\* std::lock_guard lock(HLE::g_hle_lock) of Module::Interface::RemoveAmiibo
RemoveAmiiboLock ==
    /\ frontend_pc = "idle"
    /\ hle_lock = "free"
    /\ hle_lock' = "frontend"
    /\ frontend_pc' = "CloseAmiibo"
    /\ UNCHANGED <<device_state, mount_target, is_app_area_open, is_data_moddified,
                   allowed_protocols, amiibo_filename, tag, encrypted_tag,
                   tag_in_range_event, tag_out_of_range_event, files, key_file,
                   today, last, opened_since_mount>>

\* CloseAmiibo up to the return of its Unmount
RemoveAmiiboUnmount ==
    /\ frontend_pc = "CloseAmiibo"
    /\ \E io \in In(IoOutcomes) :
          DeviceStep("CloseAmiibo", Ret(CloseAmiiboUnmount(Dev, io), "void"))
    /\ frontend_pc' = "CloseAmiibo_unmounted"
    /\ hle_lock' = hle_lock

\* the rest of CloseAmiibo, and the return that releases the lock
RemoveAmiiboClear ==
    /\ frontend_pc = "CloseAmiibo_unmounted"
    /\ DeviceStep("CloseAmiibo", Ret(CloseAmiiboClear(Dev), "void"))
    /\ frontend_pc' = "idle"
    /\ hle_lock' = "free"

\* std::lock_guard lock(HLE::g_hle_lock) of Module::Interface::LoadAmiibo
LoadAmiiboLock ==
    /\ frontend_pc = "idle"
    /\ hle_lock = "free"
    /\ hle_lock' = "frontend"
    /\ frontend_pc' = "LoadAmiibo"
    /\ UNCHANGED <<device_state, mount_target, is_app_area_open, is_data_moddified,
                   allowed_protocols, amiibo_filename, tag, encrypted_tag,
                   tag_in_range_event, tag_out_of_range_event, files, key_file,
                   today, last, opened_since_mount>>

\* nfc->device->LoadAmiibo(fullpath), and the return that releases the lock
LoadAmiiboLocked ==
    /\ frontend_pc = "LoadAmiibo"
    /\ \E filename \in Paths : DeviceStep("LoadAmiibo", LoadAmiibo(Dev, filename))
    /\ frontend_pc' = "idle"
    /\ hle_lock' = "free"

\* The IPC dispatch takes the lock for a request of the guest.
GuestRequest ==
    /\ hle_lock = "free"
    /\ hle_lock' = "guest"
    /\ UNCHANGED <<device_state, mount_target, is_app_area_open, is_data_moddified,
                   allowed_protocols, amiibo_filename, tag, encrypted_tag,
                   tag_in_range_event, tag_out_of_range_event, files, key_file,
                   today, last, opened_since_mount, frontend_pc>>

\* The handler of the request runs, and the dispatch releases the lock.
GuestCall ==
    /\ hle_lock = "guest"
    /\ \/ CallInitialize
       \/ CallFinalize
       \/ CallStartDetection
       \/ CallStopDetection
       \/ CallMount
       \/ CallUnmount
       \/ CallFlush
       \/ CallGetTagInfo2
       \/ CallGetTagInfo
       \/ CallGetCommonInfo
       \/ CallGetModelInfo
       \/ CallGetRegisterInfo
       \/ CallGetAdminInfo
       \/ CallDeleteRegisterInfo
       \/ CallSetRegisterInfoPrivate
       \/ CallRestoreAmiibo
       \/ CallFormat
       \/ CallOpenApplicationArea
       \/ CallGetApplicationAreaId
       \/ CallGetApplicationArea
       \/ CallSetApplicationArea
       \/ CallCreateApplicationArea
       \/ CallRecreateApplicationArea
       \/ CallDeleteApplicationArea
       \/ CallApplicationAreaExist

NextThreads ==
    \/ RemoveAmiiboLock
    \/ RemoveAmiiboUnmount
    \/ RemoveAmiiboClear
    \/ LoadAmiiboLock
    \/ LoadAmiiboLocked
    \/ GuestRequest
    \/ GuestCall
    \/ DayChanges

SpecThreads == Init /\ [][NextThreads]_vars

\* ------------------------------------------------------------- properties

\* The two statuses of a call made in the wrong device state.
WrongStateErrors == {ResultWrongDeviceState, ResultTagRemoved}

\* The call that left r was refused for the device state, and changed none of
\* the state, the mount target, the two flags and the two images.
Refused(r) ==
    /\ r.ret \in WrongStateErrors
    /\ r.d.device_state = device_state
    /\ r.d.mount_target = mount_target
    /\ r.d.is_app_area_open = is_app_area_open
    /\ r.d.is_data_moddified = is_data_moddified
    /\ r.d.encrypted_tag = encrypted_tag
    /\ r.d.tag = tag

\* Every call of an operation whose state check passes only in TagMounted is
\* refused, whatever its inputs.
MountedOnlyCallsRefused ==
    /\ \A io \in IoOutcomes :
        /\ Refused(Unmount(Dev, io))
        /\ Refused(Flush(Dev, io))
        /\ \A ri \in RegisterInfos : Refused(SetRegisterInfoPrivate(Dev, ri, io))
        /\ \A rnd \in RandomDraws :
            /\ Refused(DeleteRegisterInfo(Dev, rnd.buffer, rnd.word, io))
            /\ Refused(DeleteApplicationArea(Dev, rnd.buffer, rnd.word, io))
            /\ \A rnd2 \in RandomDraws, io2 \in IoOutcomes :
                Refused(Format(Dev, rnd.buffer, rnd.word, rnd2.buffer, rnd2.word, io, io2))
        /\ \A id \in AccessIds, data \in AppData, buffer \in RandomBuffers,
              pid \in ProgramIds :
            /\ Refused(CreateApplicationArea(Dev, id, data, buffer, pid, io))
            /\ Refused(RecreateApplicationArea(Dev, id, data, buffer, pid, io))
    /\ Refused(GetCommonInfo(Dev))
    /\ Refused(GetRegisterInfo(Dev))
    /\ Refused(GetAdminInfo(Dev))
    /\ Refused(RestoreAmiibo(Dev))
    /\ Refused(GetApplicationAreaId(Dev))
    /\ Refused(ApplicationAreaExist(Dev))
    /\ \A id \in AccessIds : Refused(OpenApplicationArea(Dev, id))
    /\ \A size \in {1, AreaCells + 1} : Refused(GetApplicationArea(Dev, size))
    /\ \A data \in AppData, buffer \in RandomBuffers :
        Refused(SetApplicationArea(Dev, data, buffer))

\* C1: a result-returning operation called in a device state its state check
\* does not let through returns a wrong-state error and leaves device_state,
\* mount_target, is_app_area_open, is_data_moddified and both images as they
\* were.  The states let through: Initialized and TagRemoved for
\* StartDetection, all but NotInitialized for StopDetection, TagFound for
\* Mount, TagFound and TagMounted for GetTagInfo, GetTagInfo2 and
\* GetModelInfo, TagMounted for every other operation.
C1_IllegalStateRefused ==
    /\ device_state \notin {"Initialized", "TagRemoved"}
        => \A p \in TagProtocols : Refused(StartDetection(Dev, p))
    /\ device_state = "NotInitialized"
        => \A io \in IoOutcomes : Refused(StopDetection(Dev, io))
    /\ device_state # "TagFound"
        => \A t \in MountTargets : Refused(Mount(Dev, t))
    /\ device_state \notin {"TagFound", "TagMounted"}
        => /\ Refused(GetTagInfo(Dev))
           /\ Refused(GetTagInfo2(Dev))
           /\ Refused(GetModelInfo(Dev))
    /\ device_state # "TagMounted" => MountedOnlyCallsRefused

\* A tag was mounted writable and then unmounted, its decoded image still
\* in the device: Flush is refused there and writes nothing.
C1_Witness ==
    /\ device_state = "TagFound"
    /\ last.op = "Unmount"
    /\ tag.write_counter > 0
    /\ Refused(Flush(Dev, "ok"))
    /\ Flush(Dev, "ok").ret = ResultWrongDeviceState

\* C2: StartDetection succeeds and moves to SearchingForTag exactly when the
\* state is Initialized or TagRemoved; in every other state it returns
\* WrongDeviceState and the state is unchanged.
C2_StartDetection ==
    \A p \in TagProtocols :
        LET r == StartDetection(Dev, p)
        IN  /\ (r.ret = RESULT_SUCCESS /\ r.d.device_state = "SearchingForTag")
                <=> device_state \in {"Initialized", "TagRemoved"}
            /\ device_state \notin {"Initialized", "TagRemoved"}
                => r.ret = ResultWrongDeviceState /\ r.d.device_state = device_state

\* StartDetection has just succeeded on a device whose tag had been removed.
C2_Witness ==
    /\ last.op = "StartDetection"
    /\ last.ret = RESULT_SUCCESS
    /\ device_state = "SearchingForTag"
    /\ tag_out_of_range_event

\* The first cells of the encrypted image are the cells of the file.
HoldsLoadedBytes(e, file) ==
    \A i \in 1..ImageCells : i <= Len(file) => ToCells(e)[i] = file[i]

\* C3: LoadAmiibo returns true only in SearchingForTag; when it does, the
\* state is TagFound, the encrypted image holds the loaded bytes, the
\* tag-in-range signal is set and the tag-out-of-range signal is cleared.
\* In any other state it returns false and changes neither the state, the
\* images nor the signals.
C3_LoadAmiibo ==
    \A filename \in Paths :
        LET r == LoadAmiibo(Dev, filename)
        IN  /\ r.ret => /\ device_state = "SearchingForTag"
                        /\ r.d.device_state = "TagFound"
                        /\ HoldsLoadedBytes(r.d.encrypted_tag, files[filename].data)
                        /\ r.d.tag_in_range_event
                        /\ ~r.d.tag_out_of_range_event
            /\ device_state # "SearchingForTag"
                => /\ ~r.ret
                   /\ r.d.device_state = device_state
                   /\ r.d.encrypted_tag = encrypted_tag
                   /\ r.d.tag = tag
                   /\ r.d.tag_in_range_event = tag_in_range_event
                   /\ r.d.tag_out_of_range_event = tag_out_of_range_event

\* LoadAmiibo has just loaded a whole image file.
C3_Witness ==
    /\ last.op = "LoadAmiibo"
    /\ last.ret = TRUE
    /\ device_state = "TagFound"
    /\ Len(files[amiibo_filename].data) = ImageCells
    /\ ToCells(encrypted_tag) = files[amiibo_filename].data
    /\ tag_in_range_event
    /\ ~tag_out_of_range_event

\* C4: LoadAmiibo called in SearchingForTag with tag data shorter than the
\* image (cut short, or empty) returns false, leaves the state
\* SearchingForTag and the encrypted image empty, and does not signal
\* tag-in-range.
C4_ShortDataRejected ==
    \A filename \in Paths :
        (/\ device_state = "SearchingForTag"
         /\ files[filename].exists
         /\ Len(files[filename].data) # ImageCells)
        => LET r == LoadAmiibo(Dev, filename)
           IN  /\ ~r.ret
               /\ r.d.device_state = "SearchingForTag"
               /\ r.d.encrypted_tag = ZeroEncrypted
               /\ r.d.tag_in_range_event = tag_in_range_event

\* The image fails one of the checks of the structural validation.
FailsValidation(e) ==
    \/ Xor(Xor(Xor(136, e.uuid[1]), e.uuid[2]), e.uuid[3]) # e.uuid[4]
    \/ Xor(Xor(Xor(e.uuid[5], e.uuid[6]), e.uuid[7]), e.uuid[8]) # e.uuid[9]
    \/ e.static_lock # 57359
    \/ e.compability_container # <<238, 255, 16, 241>>
    \/ e.user_memory.constant_value # 165
    \/ e.user_memory.model_info.constant_value # 2
    \/ e.CFG0 # 67108864
    \/ e.CFG1 # 95

\* C5: Mount(target) called in TagFound with the keys loaded, on an image
\* that passes the structural validation and whose stored data MAC and tag
\* MAC are the MACs of that image, returns success, sets the state to
\* TagMounted and the mount target to the requested one.
C5_MountWithCorrectMacs ==
    (/\ device_state = "TagFound"
     /\ key_file = "ok"
     /\ ~FailsValidation(encrypted_tag)
     /\ HasCorrectMacs(encrypted_tag))
    => \A t \in MountTargets :
           LET r == Mount(Dev, t)
           IN  /\ r.ret = RESULT_SUCCESS
               /\ r.d.device_state = "TagMounted"
               /\ r.d.mount_target = t

\* C6: Mount called in TagFound on an image that fails the structural
\* validation (a serial self-check, or one of the fixed values static lock
\* 0xE00F, container 0xEEFF10F1, constant 0xA5, model constant 0x02, CFG0
\* 0x04000000, CFG1 0x5F) returns NotAnAmiibo and leaves the state TagFound,
\* whatever the key file and the stored MACs.
C6_InvalidImageRejected ==
    (device_state = "TagFound" /\ FailsValidation(encrypted_tag))
    => \A t \in MountTargets :
           LET r == Mount(Dev, t)
           IN  /\ r.ret = ResultNotAnAmiibo
               /\ r.d.device_state = "TagFound"

\* An image with correct MACs and a wrong CFG1 is in a device that has the
\* keys, and Mount turns it down.
C6_Witness ==
    /\ device_state = "TagFound"
    /\ key_file = "ok"
    /\ encrypted_tag = Altered(Signed(BaseImage), 8)
    /\ Mount(Dev, "All").ret = ResultNotAnAmiibo
    /\ Mount(Dev, "All").d.device_state = "TagFound"

\* C7: with no key file, Mount called in TagFound on an image that passes
\* the structural validation returns success, moves to TagMounted and sets
\* the mount target to Rom whatever target was asked for, and does not write
\* the decoded image.
C7_MountWithoutKeys ==
    (/\ device_state = "TagFound"
     /\ key_file = "none"
     /\ ~FailsValidation(encrypted_tag))
    => \A t \in MountTargets :
           LET r == Mount(Dev, t)
           IN  /\ r.ret = RESULT_SUCCESS
               /\ r.d.device_state = "TagMounted"
               /\ r.d.mount_target = "Rom"
               /\ r.d.tag = tag

\* A device without keys has just mounted a valid image, read-only.
C7_Witness ==
    /\ last.op = "Mount"
    /\ last.ret = RESULT_SUCCESS
    /\ key_file = "none"
    /\ device_state = "TagMounted"
    /\ mount_target = "Rom"
    /\ ~FailsValidation(encrypted_tag)
    /\ tag = ZeroTag

\* The device with one MAC field of its encrypted image set to h.
WithDataMac(d, h) == [d EXCEPT !.encrypted_tag.user_memory.hmac_data = h]

WithTagMac(d, h) == [d EXCEPT !.encrypted_tag.user_memory.hmac_tag = h]

\* Mount of device d fails with CorruptedData and leaves it in TagFound.
MountCorrupted(d, t) ==
    LET r == Mount(d, t)
    IN  r.ret = ResultCorruptedData /\ r.d.device_state = "TagFound"

\* C8: when the encrypted image mounts with the loaded keys, the same image
\* with any other value in its data-MAC field, or in its tag-MAC field, makes
\* Mount return CorruptedData and leaves the state TagFound.
C8_TamperDetection ==
    \A t \in MountTargets :
        (/\ device_state = "TagFound"
         /\ key_file = "ok"
         /\ Mount(Dev, t).ret = RESULT_SUCCESS)
        => /\ \A h \in HashValues \ {encrypted_tag.user_memory.hmac_data} :
                MountCorrupted(WithDataMac(Dev, h), t)
           /\ \A h \in HashValues \ {encrypted_tag.user_memory.hmac_tag} :
                MountCorrupted(WithTagMac(Dev, h), t)

\* The device holds an image whose tag-MAC field was changed, which mounted
\* before the change, and Mount has just failed on it with CorruptedData.
C8_Witness ==
    /\ last.op = "Mount"
    /\ last.ret = ResultCorruptedData
    /\ device_state = "TagFound"
    /\ key_file = "ok"
    /\ encrypted_tag.user_memory.hmac_tag # 0
    /\ Mount(WithTagMac(Dev, 0), "All").ret = RESULT_SUCCESS

\* C9: a Mount that returns NotAnAmiibo or CorruptedData, and a Flush that
\* returns WriteAmiiboFailed or WrongDeviceState, leave device_state and
\* mount_target as they were; a Mount moves the state only when it succeeds.
C9_FailureKeepsState ==
    /\ \A t \in MountTargets :
        LET r == Mount(Dev, t)
        IN  /\ r.ret \in {ResultNotAnAmiibo, ResultCorruptedData}
                => r.d.device_state = device_state /\ r.d.mount_target = mount_target
            /\ r.d.device_state # device_state => r.ret = RESULT_SUCCESS
    /\ \A io \in IoOutcomes :
        LET r == Flush(Dev, io)
        IN  r.ret \in {ResultWriteAmiiboFailed, ResultWrongDeviceState}
                => r.d.device_state = device_state /\ r.d.mount_target = mount_target

\* A Flush of a writable mount has just failed at the file, after it counted
\* the write.
C9_Witness ==
    /\ last.op = "Flush"
    /\ last.ret = ResultWriteAmiiboFailed
    /\ device_state = "TagMounted"
    /\ mount_target = "All"
    /\ tag.write_counter > 0
    /\ files[amiibo_filename].data = <<>>

\* The device after Unmount's transition.
Unmounted(d) ==
    [d EXCEPT !.device_state = "TagFound", !.mount_target = "None",
              !.is_app_area_open = FALSE]

\* C10: Unmount called in TagMounted succeeds, moves to TagFound, resets the
\* mount target to None and closes the application area; when the modified
\* flag is set the device is first flushed.  In any other state it fails,
\* with the TagRemoved status in TagRemoved and WrongDeviceState otherwise,
\* and changes nothing.
C10_Unmount ==
    \A io \in IoOutcomes :
        LET r == Unmount(Dev, io)
        IN  /\ device_state = "TagMounted"
                => /\ r.ret = RESULT_SUCCESS
                   /\ r.d.device_state = "TagFound"
                   /\ r.d.mount_target = "None"
                   /\ ~r.d.is_app_area_open
                   /\ is_data_moddified => r.d = Unmounted(Flush(Dev, io).d)
                   /\ ~is_data_moddified => r.d = Unmounted(Dev)
            /\ device_state # "TagMounted"
                => /\ r.ret = IF device_state = "TagRemoved" THEN ResultTagRemoved
                              ELSE ResultWrongDeviceState
                   /\ r.d = Dev

\* A mounted tag with its application area open has unsaved data, and
\* Unmount saves it to the tag file on the way to TagFound.
C10_Witness ==
    /\ device_state = "TagMounted"
    /\ is_data_moddified
    /\ is_app_area_open
    /\ Unmount(Dev, "ok").d.device_state = "TagFound"
    /\ Unmount(Dev, "ok").d.files[amiibo_filename] # files[amiibo_filename]
    /\ Unmount(Dev, "ok").d.files[amiibo_filename].data
           = ToCells(Unmount(Dev, "ok").d.encrypted_tag)
    /\ ~Unmount(Dev, "ok").d.is_data_moddified

\* C11: in every reachable state other than TagMounted the modified flag is
\* false, whichever operation ended the mount and whether or not the write
\* to the tag file failed.
C11_FlushedOutsideMount == device_state # "TagMounted" => ~is_data_moddified

\* C12: CloseAmiibo called in TagFound or TagMounted ends in TagRemoved; a
\* mounted tag is unmounted first (mount target None, application area
\* closed); both images and the file name are cleared, tag-in-range is
\* cleared and tag-out-of-range is signaled.
C12_CloseAmiibo ==
    device_state \in {"TagFound", "TagMounted"}
    => \A io \in IoOutcomes :
           LET r == CloseAmiibo(Dev, io)
           IN  /\ r.d.device_state = "TagRemoved"
               /\ device_state = "TagMounted"
                   => r.d.mount_target = "None" /\ ~r.d.is_app_area_open
               /\ r.d.encrypted_tag = ZeroEncrypted
               /\ r.d.tag = ZeroTag
               /\ r.d.amiibo_filename = ""
               /\ ~r.d.tag_in_range_event
               /\ r.d.tag_out_of_range_event

\* A writably mounted tag with its application area open is there to be
\* removed, and CloseAmiibo removes it.
C12_Witness ==
    /\ device_state = "TagMounted"
    /\ mount_target = "All"
    /\ is_app_area_open
    /\ tag_in_range_event
    /\ CloseAmiibo(Dev, "ok").d.device_state = "TagRemoved"
    /\ CloseAmiibo(Dev, "ok").d.mount_target = "None"
    /\ CloseAmiibo(Dev, "ok").d.tag_out_of_range_event

\* C13: StopDetection called in TagFound or TagMounted leaves the device in
\* TagRemoved; it takes a second StopDetection to reach Initialized.
C13_StopLeavesTagRemoved ==
    device_state \in {"TagFound", "TagMounted"}
    => \A io \in IoOutcomes :
           LET r == StopDetection(Dev, io)
           IN  /\ r.d.device_state = "TagRemoved"
               /\ \A io2 \in IoOutcomes :
                    StopDetection(r.d, io2).d.device_state = "Initialized"

\* C14: StopDetection called in TagRemoved or SearchingForTag returns
\* success and moves to Initialized; in Initialized it returns success and
\* changes nothing; in NotInitialized it returns WrongDeviceState and
\* changes nothing.
C14_StopDetection ==
    \A io \in IoOutcomes :
        LET r == StopDetection(Dev, io)
        IN  /\ device_state \in {"TagRemoved", "SearchingForTag"}
                => r.ret = RESULT_SUCCESS /\ r.d.device_state = "Initialized"
            /\ device_state = "Initialized"
                => r.ret = RESULT_SUCCESS /\ r.d = Dev
            /\ device_state = "NotInitialized"
                => r.ret = ResultWrongDeviceState /\ r.d = Dev

\* A search is on with no tag found yet, and StopDetection ends it.
C14_Witness ==
    /\ device_state = "SearchingForTag"
    /\ StopDetection(Dev, "ok").ret = RESULT_SUCCESS
    /\ StopDetection(Dev, "ok").d.device_state = "Initialized"

\* C15: Finalize, in any state, ends in NotInitialized with the mount target
\* None, the application area closed and no tag reported in range; a
\* mounted tag is unmounted first, flushed when the modified flag is set.
C15_Finalize ==
    \A io \in IoOutcomes :
        LET r == Finalize(Dev, io)
        IN  /\ r.d.device_state = "NotInitialized"
            /\ r.d.mount_target = "None"
            /\ ~r.d.is_app_area_open
            /\ ~r.d.tag_in_range_event
            /\ device_state = "TagMounted" /\ is_data_moddified
                => r.d.files = Flush(Dev, io).d.files

\* The statuses the application-area operations return on the device as it
\* is, over all their inputs.
AreaCallRets ==
    {OpenApplicationArea(Dev, id).ret : id \in AccessIds}
        \cup {GetApplicationAreaId(Dev).ret, ApplicationAreaExist(Dev).ret}
        \cup {GetApplicationArea(Dev, size).ret : size \in {1, AreaCells + 1}}
        \cup {SetApplicationArea(Dev, data, buffer).ret :
                data \in AppData, buffer \in RandomBuffers}
        \cup UNION {{CreateApplicationArea(Dev, id, data, buffer, pid, io).ret,
                     RecreateApplicationArea(Dev, id, data, buffer, pid, io).ret} :
                id \in AccessIds, data \in AppData, buffer \in RandomBuffers,
                pid \in ProgramIds, io \in IoOutcomes}
        \cup {DeleteApplicationArea(Dev, rnd.buffer, rnd.word, io).ret :
                rnd \in RandomDraws, io \in IoOutcomes}

\* The statuses the mounted-only operations return on the device as it is.
MountedOnlyRets ==
    AreaCallRets
        \cup UNION {{Flush(Dev, io).ret, Unmount(Dev, io).ret} : io \in IoOutcomes}
        \cup {GetCommonInfo(Dev).ret, GetRegisterInfo(Dev).ret, GetAdminInfo(Dev).ret,
              RestoreAmiibo(Dev).ret}
        \cup {SetRegisterInfoPrivate(Dev, ri, io).ret :
                ri \in RegisterInfos, io \in IoOutcomes}
        \cup {DeleteRegisterInfo(Dev, rnd.buffer, rnd.word, io).ret :
                rnd \in RandomDraws, io \in IoOutcomes}

\* C16: a mounted-only operation succeeds only in TagMounted, and in
\* TagRemoved each of them returns the TagRemoved status, a status that is
\* not WrongDeviceState.
C16_TagRemovedStatus ==
    /\ device_state # "TagMounted" => RESULT_SUCCESS \notin MountedOnlyRets
    /\ device_state = "TagRemoved"
        => /\ MountedOnlyRets = {ResultTagRemoved}
           /\ ResultWrongDeviceState \notin MountedOnlyRets

\* The tag is mounted read-only.
ReadOnlyMount == device_state = "TagMounted" /\ mount_target \in {"Rom", "None"}

\* The statuses the mutating operations return on the device as it is.
MutatingRets ==
    {Flush(Dev, io).ret : io \in IoOutcomes}
        \cup {SetRegisterInfoPrivate(Dev, ri, io).ret :
                ri \in RegisterInfos, io \in IoOutcomes}
        \cup {DeleteRegisterInfo(Dev, rnd.buffer, rnd.word, io).ret :
                rnd \in RandomDraws, io \in IoOutcomes}
        \cup {Format(Dev, rnd.buffer, rnd.word, rnd2.buffer, rnd2.word, io, io2).ret :
                rnd \in RandomDraws, rnd2 \in RandomDraws,
                io \in IoOutcomes, io2 \in IoOutcomes}
        \cup {OpenApplicationArea(Dev, id).ret : id \in AccessIds}
        \cup {SetApplicationArea(Dev, data, buffer).ret :
                data \in AppData, buffer \in RandomBuffers}
        \cup UNION {{CreateApplicationArea(Dev, id, data, buffer, pid, io).ret,
                     RecreateApplicationArea(Dev, id, data, buffer, pid, io).ret} :
                id \in AccessIds, data \in AppData, buffer \in RandomBuffers,
                pid \in ProgramIds, io \in IoOutcomes}
        \cup {DeleteApplicationArea(Dev, rnd.buffer, rnd.word, io).ret :
                rnd \in RandomDraws, io \in IoOutcomes}

\* A step inside one read-only mount leaves both images and the files.
ReadOnlyStepKeepsTag ==
    (ReadOnlyMount /\ ReadOnlyMount')
    => tag' = tag /\ encrypted_tag' = encrypted_tag /\ files' = files

\* C17: while the tag is mounted read-only every mutating operation returns
\* WrongDeviceState, and no operation made in that mount modifies the
\* decoded image, the encrypted image or the tag file.
C17_ReadOnlyMount ==
    /\ [](ReadOnlyMount => MutatingRets = {ResultWrongDeviceState})
    /\ [][ReadOnlyStepKeepsTag]_vars

\* A tag that has an application area from an earlier writable mount is
\* mounted read-only, with the keys there: CreateApplicationArea is refused.
C17_Witness ==
    /\ ReadOnlyMount
    /\ key_file = "ok"
    /\ tag.settings.appdata_initialized # 0
    /\ \E id \in AccessIds, data \in AppData, buffer \in RandomBuffers,
          pid \in ProgramIds :
         LET r == CreateApplicationArea(Dev, id, data, buffer, pid, "ok")
         IN  r.ret = ResultWrongDeviceState /\ r.d = Dev

\* C18: on a tag mounted read-only (mount target Rom) none of GetTagInfo,
\* GetModelInfo, GetCommonInfo, GetRegisterInfo and GetAdminInfo returns
\* WrongDeviceState.
C18_QueriesOnReadOnlyMount ==
    (device_state = "TagMounted" /\ mount_target = "Rom")
    => /\ GetTagInfo(Dev).ret # ResultWrongDeviceState
       /\ GetModelInfo(Dev).ret # ResultWrongDeviceState
       /\ GetCommonInfo(Dev).ret # ResultWrongDeviceState
       /\ GetRegisterInfo(Dev).ret # ResultWrongDeviceState
       /\ GetAdminInfo(Dev).ret # ResultWrongDeviceState

C20_DistinctStatuses ==
    device_state \in DeviceStates =>
    Cardinality({ResultWrongDeviceState, ResultTagRemoved, ResultWriteAmiiboFailed,
                 ResultApplicationAreaExist, ResultWrongApplicationAreaSize}) = 5

\* ---------------------------------------------------- C21 .. C30

\* C21: GetApplicationArea and SetApplicationArea succeed only in a mount in
\* which OpenApplicationArea has succeeded since the Mount, with no deletion
\* of the area since; right after a Mount both fail.
C21_OpenBeforeAccess ==
    /\ \A size \in 1..(AreaCells + 1) :
          GetApplicationArea(Dev, size).ret = RESULT_SUCCESS => opened_since_mount
    /\ \A data \in AppData, buffer \in RandomBuffers :
          SetApplicationArea(Dev, data, buffer).ret = RESULT_SUCCESS
              => opened_since_mount
    /\ (last.op = "Mount" /\ device_state = "TagMounted")
          => /\ \A size \in 1..(AreaCells + 1) :
                   IsError(GetApplicationArea(Dev, size).ret)
             /\ \A data \in AppData, buffer \in RandomBuffers :
                   IsError(SetApplicationArea(Dev, data, buffer).ret)

\* A second mount of a tag that has an area, with nothing opened in it: the
\* accesses are refused, and they succeed once the area is opened.
C21_Witness ==
    /\ last.op = "Mount"
    /\ device_state = "TagMounted"
    /\ mount_target = "All"
    /\ tag.settings.appdata_initialized # 0
    /\ ~opened_since_mount
    /\ IsError(GetApplicationArea(Dev, 1).ret)
    /\ LET o == OpenApplicationArea(Dev, tag.application_area_id)
       IN  /\ o.ret = RESULT_SUCCESS
           /\ GetApplicationArea(o.d, 1).ret = RESULT_SUCCESS

\* C22: CreateApplicationArea on a writable mount of a tag whose application
\* area is initialized returns ApplicationAreaExist and changes nothing, in
\* the device or in the files.
C22_CreateOverExisting ==
    (device_state = "TagMounted" /\ ~IsReadOnly(Dev)
        /\ tag.settings.appdata_initialized # 0)
    => \A id \in AccessIds, data \in AppData, buffer \in RandomBuffers,
          pid \in ProgramIds, io \in IoOutcomes :
           LET r == CreateApplicationArea(Dev, id, data, buffer, pid, io)
           IN  /\ r.ret = ResultApplicationAreaExist
               /\ r.d = Dev

\* An area that is there and not open, so that only the test of
\* appdata_initialized keeps a second creation from replacing it.
C22_Witness ==
    /\ device_state = "TagMounted"
    /\ mount_target = "All"
    /\ tag.settings.appdata_initialized # 0
    /\ ~is_app_area_open
    /\ \E id \in AccessIds, data \in AppData, buffer \in RandomBuffers,
          pid \in ProgramIds :
           /\ id # tag.application_area_id
           /\ Len(data) <= AreaCells
           /\ CreateApplicationArea(Dev, id, data, buffer, pid, "ok").ret
                  = ResultApplicationAreaExist
           /\ CreateApplicationArea(Dev, id, data, buffer, pid, "ok").d = Dev

\* C23: after a successful CreateApplicationArea(id, data) on a writable
\* mount of a tag with no area, GetApplicationAreaId returns id,
\* OpenApplicationArea(id) succeeds, OpenApplicationArea of another id fails
\* with WrongApplicationAreaId and opens nothing, and after the open
\* GetApplicationArea returns a buffer that starts with data.
C23_CreatedArea ==
    (device_state = "TagMounted" /\ ~IsReadOnly(Dev)
        /\ tag.settings.appdata_initialized = 0)
    => \A id \in AccessIds, data \in AppData, buffer \in RandomBuffers,
          pid \in ProgramIds, io \in IoOutcomes :
           LET r == CreateApplicationArea(Dev, id, data, buffer, pid, io)
               o == OpenApplicationArea(r.d, id)
           IN  r.ret = RESULT_SUCCESS
               => /\ GetApplicationAreaId(r.d).ret = RESULT_SUCCESS
                  /\ GetApplicationAreaId(r.d).out = id
                  /\ o.ret = RESULT_SUCCESS
                  /\ o.d.is_app_area_open
                  /\ \A other \in AccessIds \ {id} :
                        /\ OpenApplicationArea(r.d, other).ret
                               = ResultWrongApplicationAreaId
                        /\ OpenApplicationArea(r.d, other).d = r.d
                        /\ ~r.d.is_app_area_open
                  /\ \A size \in Len(data)..(AreaCells + 1) :
                        LET g == GetApplicationArea(o.d, size)
                        IN  /\ g.ret = RESULT_SUCCESS
                            /\ Len(g.out) >= Len(data)
                            /\ SubSeq(g.out, 1, Len(data)) = data

\* The creation of an area that fills part of the area, the rest random.
C23_Witness ==
    /\ last.op = "CreateApplicationArea"
    /\ last.ret = RESULT_SUCCESS
    /\ device_state = "TagMounted"
    /\ tag.settings.appdata_initialized # 0
    /\ ~is_app_area_open
    /\ tag.application_area[1] = 7
    /\ tag.application_area[AreaCells] # 7
    /\ GetApplicationAreaId(Dev).out = tag.application_area_id
    /\ OpenApplicationArea(Dev, tag.application_area_id).ret = RESULT_SUCCESS

\* The device d, mounted, after Unmount with a file that can be written, the
\* removal of the tag, and a new detection that loads the file again and
\* mounts it.
Remounted(d) ==
    LET unmounted == Unmount(d, "ok")
        removed == CloseAmiibo(unmounted.d, "ok")
        searching == StartDetection(removed.d, "All")
        loaded == LoadAmiibo(searching.d, d.amiibo_filename)
    IN  [unmount |-> unmounted.ret, load |-> loaded.ret,
         mount |-> Mount(loaded.d, "All")]

\* C24: the application area survives unmount and remount: after a
\* successful CreateApplicationArea or SetApplicationArea and a successful
\* Unmount, the persisted bytes load and mount again with the same keys, and
\* OpenApplicationArea(id) then GetApplicationArea return the same payload.
C24_AreaSurvivesRemount ==
    (/\ last.op \in {"CreateApplicationArea", "SetApplicationArea"}
     /\ last.ret = RESULT_SUCCESS
     /\ device_state = "TagMounted")
    => LET again == Remounted(Dev)
           o == OpenApplicationArea(again.mount.d, tag.application_area_id)
           g == GetApplicationArea(o.d, AreaCells)
       IN  /\ again.unmount = RESULT_SUCCESS
           /\ again.load = TRUE
           /\ again.mount.ret = RESULT_SUCCESS
           /\ o.ret = RESULT_SUCCESS
           /\ g.ret = RESULT_SUCCESS
           /\ g.out = tag.application_area

\* Values of the application write counter: the first ones and the last ones.
CounterValues == (0..MaxAppWrites) \cup ((counter_limit - MaxAppWrites)..counter_limit)

\* The device with c writes of the application area behind it.
WithApplicationWrites(d, c) == [d EXCEPT !.tag.application_write_counter = c]

\* What a call does to the counter c of the device it starts from: a call
\* that succeeds leaves c + 1, or c at counter_limit; one that fails leaves
\* c or that value; never more than counter_limit, and never less than c.
CounterStep(c, r) ==
    LET after == r.d.tag.application_write_counter
        bumped == IF c < counter_limit THEN c + 1 ELSE counter_limit
    IN  /\ after \in {c, bumped}
        /\ after <= counter_limit
        /\ after >= c
        /\ r.ret = RESULT_SUCCESS => after = bumped

\* C25: from a mounted tag whose application write counter is at most
\* counter_limit, SetApplicationArea, CreateApplicationArea,
\* RecreateApplicationArea and DeleteApplicationArea never take the counter
\* above counter_limit or make it wrap; each successful write raises it by
\* one until counter_limit, where it stays.
C25_CounterSaturates ==
    device_state = "TagMounted"
    => \A c \in CounterValues :
         LET d == WithApplicationWrites(Dev, c)
         IN  /\ \A data \in AppData, buffer \in RandomBuffers :
                   CounterStep(c, SetApplicationArea(d, data, buffer))
             /\ \A id \in AccessIds, data \in AppData, buffer \in RandomBuffers,
                   pid \in ProgramIds, io \in IoOutcomes :
                   /\ CounterStep(c, CreateApplicationArea(d, id, data, buffer, pid, io))
                   /\ CounterStep(c, RecreateApplicationArea(d, id, data, buffer, pid, io))
             /\ \A rnd \in RandomDraws, io \in IoOutcomes :
                   CounterStep(c, DeleteApplicationArea(d, rnd.buffer, rnd.word, io))

\* A write that succeeds at counter_limit and leaves the counter there, and
\* one that succeeds just below and reaches it.
C25_Witness ==
    /\ device_state = "TagMounted"
    /\ is_app_area_open
    /\ tag.application_write_counter = MaxAppWrites
    /\ last.op = "SetApplicationArea"
    /\ last.ret = RESULT_SUCCESS
    /\ \E data \in AppData, buffer \in RandomBuffers :
          LET top == SetApplicationArea(WithApplicationWrites(Dev, counter_limit),
                                        data, buffer)
              below == SetApplicationArea(WithApplicationWrites(Dev, counter_limit - 1),
                                          data, buffer)
          IN  /\ top.ret = RESULT_SUCCESS
              /\ top.d.tag.application_write_counter = counter_limit
              /\ below.ret = RESULT_SUCCESS
              /\ below.d.tag.application_write_counter = counter_limit

\* C26: DeleteRegisterInfo on a writable mount whose register info is
\* initialized clears amiibo_initialized, so that GetRegisterInfo and a second
\* DeleteRegisterInfo return RegistrationIsNotInitialized; a successful
\* SetRegisterInfoPrivate sets the flag again, and GetRegisterInfo then
\* succeeds and returns the name and the Mii data that were set.
C26_RegisterInfo ==
    (device_state = "TagMounted" /\ ~IsReadOnly(Dev))
    => /\ tag.settings.amiibo_initialized # 0
          => \A rnd \in RandomDraws, io \in IoOutcomes :
               LET r == DeleteRegisterInfo(Dev, rnd.buffer, rnd.word, io)
               IN  /\ r.d.tag.settings.amiibo_initialized = 0
                   /\ GetRegisterInfo(r.d).ret = ResultRegistrationIsNotInitialized
                   /\ \A rnd2 \in RandomDraws, io2 \in IoOutcomes :
                         LET again == DeleteRegisterInfo(r.d, rnd2.buffer, rnd2.word, io2)
                         IN  /\ again.ret = ResultRegistrationIsNotInitialized
                             /\ again.d = r.d
       /\ \A ri \in RegisterInfos, io \in IoOutcomes :
             LET s == SetRegisterInfoPrivate(Dev, ri, io)
                 g == GetRegisterInfo(s.d)
             IN  s.ret = RESULT_SUCCESS
                 => /\ s.d.tag.settings.amiibo_initialized # 0
                    /\ g.ret = RESULT_SUCCESS
                    /\ g.out.mii_data = ri.mii_data
                    /\ g.out.amiibo_name = ri.amiibo_name

\* A deletion that succeeded, after which the register info is set again.
C26_Witness ==
    /\ last.op = "DeleteRegisterInfo"
    /\ last.ret = RESULT_SUCCESS
    /\ device_state = "TagMounted"
    /\ tag.settings.amiibo_initialized = 0
    /\ GetRegisterInfo(Dev).ret = ResultRegistrationIsNotInitialized
    /\ \E ri \in RegisterInfos :
          LET s == SetRegisterInfoPrivate(Dev, ri, "ok")
          IN  /\ s.ret = RESULT_SUCCESS
              /\ tag.owner_mii # ri.mii_data
              /\ GetRegisterInfo(s.d).out.mii_data = ri.mii_data

\* C27: Format is DeleteApplicationArea followed by DeleteRegisterInfo.  It
\* returns success exactly when both succeed; after a successful Format
\* appdata_initialized and amiibo_initialized are clear and the area is
\* closed; when a deletion fails Format returns the first failing status,
\* that of the application area before that of the register info.
C27_Format ==
    device_state \in DeviceStates
    => \A rnd \in RandomDraws, rnd2 \in RandomDraws, io \in IoOutcomes,
          io2 \in IoOutcomes :
           LET area == DeleteApplicationArea(Dev, rnd.buffer, rnd.word, io)
               info == DeleteRegisterInfo(area.d, rnd2.buffer, rnd2.word, io2)
               f == Format(Dev, rnd.buffer, rnd.word, rnd2.buffer, rnd2.word, io, io2)
           IN  /\ f.d = info.d
               /\ f.ret = RESULT_SUCCESS
                     <=> (area.ret = RESULT_SUCCESS /\ info.ret = RESULT_SUCCESS)
               /\ f.ret = RESULT_SUCCESS
                     => /\ f.d.tag.settings.appdata_initialized = 0
                        /\ f.d.tag.settings.amiibo_initialized = 0
                        /\ ~f.d.is_app_area_open
               /\ IsError(area.ret) => f.ret = area.ret
               /\ (~IsError(area.ret) /\ IsError(info.ret)) => f.ret = info.ret

\* A tag with an open area and register info, which Format clears with
\* success, and which a further Format refuses for the missing area.
C27_Witness ==
    /\ device_state = "TagMounted"
    /\ tag.settings.appdata_initialized # 0
    /\ tag.settings.amiibo_initialized # 0
    /\ is_app_area_open
    /\ \E rnd \in RandomDraws :
          LET f == Format(Dev, rnd.buffer, rnd.word, rnd.buffer, rnd.word, "ok", "ok")
              g == Format(f.d, rnd.buffer, rnd.word, rnd.buffer, rnd.word, "ok", "ok")
          IN  /\ f.ret = RESULT_SUCCESS
              /\ f.d.tag.settings.appdata_initialized = 0
              /\ f.d.tag.settings.amiibo_initialized = 0
              /\ ~f.d.is_app_area_open
              /\ g.ret = ResultApplicationAreaIsNotInitialized
              /\ DeleteRegisterInfo(f.d, rnd.buffer, rnd.word, "ok").ret
                     = ResultRegistrationIsNotInitialized

\* C28: every operation of the device, LoadAmiibo and RemoveAmiibo of the
\* frontend included, runs under g_hle_lock and to its end: while a call of
\* the frontend is under way the frontend holds the lock, and a request of
\* the guest that holds the lock finds no call of the frontend under way, so
\* that no handler runs on the state in the middle of CloseAmiibo.
C28_UnderTheLock ==
    /\ frontend_pc # "idle" => hle_lock = "frontend"
    /\ hle_lock = "guest" => frontend_pc = "idle"

\* The middle of CloseAmiibo of a mounted tag: unmounted, with both images
\* still in place, and the frontend holding the lock.
C28_Witness ==
    /\ frontend_pc = "CloseAmiibo_unmounted"
    /\ hle_lock = "frontend"
    /\ device_state = "TagFound"
    /\ mount_target = "None"
    /\ tag # ZeroTag
    /\ encrypted_tag # ZeroEncrypted
    /\ last.op = "CloseAmiibo"

\* C29: the decoded image is populated only while the device is TagMounted:
\* in every other state it is all zero, after a Mount that failed with
\* CorruptedData and after an Unmount as well; and the encrypted image is
\* empty in Initialized, SearchingForTag and TagRemoved.
C29_ImagesPopulated ==
    /\ device_state # "TagMounted" => tag = ZeroTag
    /\ device_state \in {"Initialized", "SearchingForTag", "TagRemoved"}
          => encrypted_tag = ZeroEncrypted

\* C30: for any decoded image L and loaded keys, DecodeAmiibo(EncodeAmiibo(L))
\* succeeds and yields an image equal to L in every field, the settings, the
\* owner Mii, the application id, the application write counter, the
\* application area id and the application area included.  L is the decoded
\* image of a mount; the decoding is into an empty image.
C30_RoundTrip ==
    (device_state = "TagMounted" /\ key_file = "ok")
    => LET encoded == EncodeAmiibo(key_file, tag, ZeroEncrypted)
           decoded == DecodeAmiibo(key_file, encoded.encrypted_tag_data, ZeroTag)
       IN  /\ encoded.ok
           /\ decoded.ok
           /\ decoded.tag_data = tag

\* ---------------------------------------------------- C31 .. C40

C32_CipherSelfInverse ==
    device_state = "TagMounted"
    => /\ Cipher(Cipher(tag, ZeroTag), ZeroTag) = tag
       /\ Cipher(tag, ZeroTag).hmac_data = tag.hmac_data
       /\ Cipher(tag, ZeroTag).hmac_tag = tag.hmac_tag

\* Key derivation.  An InternalKey is one record of key_retail.bin; its
\* content is whatever the file holds, drawn here from templates whose
\* magic_length is 14 (two bytes of the seed are used) or 16 (none is).
InternalKeys ==
    [hmac_key : {1, 2}, type_string : {"unfixed infos", "locked secret"},
     magic_bytes : {7}, magic_length : {14, 16}, xor_pad : {0, 1}]

\* GetSeed: the seed opens with the write counter of the image; uuid1 and
\* uuid2 are both the first eight bytes of data.uuid.
GetSeed(data) ==
    [magic |-> data.write_counter,
     padding |-> 0,
     uuid1 |-> SubSeq(data.uuid, 1, 8),
     uuid2 |-> SubSeq(data.uuid, 1, 8),
     keygen_salt |-> data.keygen_salt]

\* GenerateInternalKey: seed_part is the first sizeof(magic_bytes) -
\* magic_length bytes of the seed object, which begins with seed.magic (and
\* goes on with the zero padding): nothing for a magic_length of 16, the
\* bytes of the write counter otherwise.
GenerateInternalKey(key, seed) ==
    LET seedPart1Len == 16 - key.magic_length
    IN  [type_string |-> key.type_string,
         seed_part |-> IF seedPart1Len = 0 THEN 0 ELSE seed.magic,
         seed_part_len |-> seedPart1Len,
         magic_bytes |-> <<key.magic_bytes, key.magic_length>>,
         uuid1 |-> seed.uuid1,
         uuid2 |-> seed.uuid2,
         keygen_salt |-> Xor(seed.keygen_salt, key.xor_pad)]

\* What the out-of-bounds accesses of GenerateKey leave in the bytes of
\* DerivedKeys that lie beyond the 20-byte buffer d: the tail of the digest
\* that CalculateDigest wrote past its end, or other content of the stack.
StackOutcomes == {"digest", "stack 0", "stack 1"}

\* GenerateKey.  The HMAC-SHA256 is a function of its key and its message
\* (kept as the pair of them); the message is update1, then internal_key
\* given to Update and again to CalculateDigest.  internal_key is copied
\* into crypto_seed, an array of sizeof(HmacKey) bytes, and the digest of 32
\* bytes is written into d, an array of HMAC<SHA1>::DIGESTSIZE = 20 bytes,
\* from which sizeof(DerivedKeys) bytes are then read: both are out of
\* bounds, and stack is the outcome for the bytes read beyond d.  aes_key
\* is the part of the digest that lies within d.
GenerateKey(key, data, stack) ==
    LET seed == GetSeed(data)
        internal_key == GenerateInternalKey(key, seed)
        digest == [key |-> key.hmac_key, update1 |-> <<0, 1>>,
                   message |-> <<internal_key, internal_key>>]
    IN  [aes_key |-> [digest |-> digest, from |-> "digest"],
         aes_iv |-> [digest |-> digest, from |-> stack],
         hmac_key |-> [digest |-> digest, from |-> stack]]

\* C33: the derived key set is a function of the key template, the serial
\* number and the keygen salt only: two decoded images that agree on uuid
\* and keygen_salt and differ in the write counter yield the same AES key,
\* IV and HMAC key under the same template.
C33_KeysFromSerialAndSalt ==
    device_state = "TagMounted"
    => \A key \in InternalKeys : \A c \in 0..MaxWriteCounter :
         \A s1 \in StackOutcomes : \A s2 \in StackOutcomes :
            GenerateKey(key, tag, s1)
                = GenerateKey(key, [tag EXCEPT !.write_counter = c], s2)

\* C34: in every reachable state other than TagMounted the mount target is
\* None: every way of leaving TagMounted (Unmount, CloseAmiibo,
\* StopDetection, Finalize, Initialize) resets it.
C34_MountTargetNone ==
    device_state # "TagMounted" => mount_target = "None"

\* The image of the mount was changed by the call whose result is r,
\* the call answered WriteAmiiboFailed and the tag is still mounted.
ChangedUnsaved(r) ==
    /\ r.ret = ResultWriteAmiiboFailed
    /\ r.d.device_state = "TagMounted"
    /\ r.d.tag # tag

\* C35: dirty tracking is complete: on a writable mount, when
\* CreateApplicationArea, DeleteApplicationArea, SetRegisterInfoPrivate or
\* DeleteRegisterInfo changed the decoded image and its Flush failed with
\* WriteAmiiboFailed, the modified flag is true afterwards, so that the next
\* Unmount attempts the flush.
C35_DirtyTracking ==
    (device_state = "TagMounted" /\ mount_target = "All")
    => \A rnd \in RandomDraws : \A io \in IoOutcomes :
          /\ \A id \in AccessIds : \A data \in AppData : \A pid \in ProgramIds :
                LET r == CreateApplicationArea(Dev, id, data, rnd.buffer, pid, io)
                IN  ChangedUnsaved(r) => r.d.is_data_moddified
          /\ LET r == DeleteApplicationArea(Dev, rnd.buffer, rnd.word, io)
             IN  ChangedUnsaved(r) => r.d.is_data_moddified
          /\ \A ri \in RegisterInfos :
                LET r == SetRegisterInfoPrivate(Dev, ri, io)
                IN  ChangedUnsaved(r) => r.d.is_data_moddified
          /\ LET r == DeleteRegisterInfo(Dev, rnd.buffer, rnd.word, io)
             IN  ChangedUnsaved(r) => r.d.is_data_moddified

\* The register info of an image: owner Mii, name, amiibo_initialized.
RegisterInfoOf(t) ==
    <<t.owner_mii, t.settings.amiibo_name, t.settings.amiibo_initialized>>

\* The application area of an image: bytes, id, appdata_initialized.
ApplicationAreaOf(t) ==
    <<t.application_area, t.application_area_id, t.settings.appdata_initialized>>

\* C36: Format is all-or-nothing: whenever it returns an error, neither the
\* register info nor the application area has been modified and nothing
\* has been written to the file.
C36_FormatAllOrNothing ==
    device_state = "TagMounted"
    => \A rnd \in RandomDraws : \A rnd2 \in RandomDraws :
          \A io \in IoOutcomes : \A io2 \in IoOutcomes :
             LET r == Format(Dev, rnd.buffer, rnd.word, rnd2.buffer, rnd2.word, io, io2)
             IN  IsError(r.ret)
                 => /\ RegisterInfoOf(r.d.tag) = RegisterInfoOf(tag)
                    /\ ApplicationAreaOf(r.d.tag) = ApplicationAreaOf(tag)
                    /\ r.d.files = files

\* C37: a Flush of a writable mount that returns WriteAmiiboFailed leaves
\* the decoded image exactly as it was (write counter, write date, crc
\* counter) and the modified flag unchanged, so that a failed flush followed
\* by a successful one advances the write counter by one in total.
C37_FailedFlush ==
    (device_state = "TagMounted" /\ mount_target = "All")
    => \A io \in IoOutcomes :
          LET r == Flush(Dev, io)
          IN  r.ret = ResultWriteAmiiboFailed
              => /\ r.d.tag = tag
                 /\ r.d.is_data_moddified = is_data_moddified
                 /\ LET r2 == Flush(r.d, "ok")
                    IN  r2.ret = RESULT_SUCCESS
                        => r2.d.tag.write_counter = (tag.write_counter + 1) % 65536

\* The device from its construction on with every call but Initialize
\* offered: what a guest and a frontend can do that never call Initialize.
NextNoInitialize ==
    \/ CallLoadAmiibo
    \/ CallCloseAmiibo
    \/ CallFinalize
    \/ CallStartDetection
    \/ CallStopDetection
    \/ CallMount
    \/ CallUnmount
    \/ CallFlush
    \/ CallGetTagInfo2
    \/ CallGetTagInfo
    \/ CallGetCommonInfo
    \/ CallGetModelInfo
    \/ CallGetRegisterInfo
    \/ CallGetAdminInfo
    \/ CallDeleteRegisterInfo
    \/ CallSetRegisterInfoPrivate
    \/ CallRestoreAmiibo
    \/ CallFormat
    \/ CallOpenApplicationArea
    \/ CallGetApplicationAreaId
    \/ CallGetApplicationArea
    \/ CallSetApplicationArea
    \/ CallCreateApplicationArea
    \/ CallRecreateApplicationArea
    \/ CallDeleteApplicationArea
    \/ CallApplicationAreaExist
    \/ DayChanges

SpecNoInitialize == Init /\ [][NextNoInitialize]_vars

\* C38: SearchingForTag is reachable only after Initialize: from
\* NotInitialized no sequence of calls that excludes Initialize (CloseAmiibo
\* from the frontend included) leads to SearchingForTag, TagFound or
\* TagMounted.  Stated of the behaviours without Initialize.
C38_OnlyAfterInitialize ==
    device_state \notin {"SearchingForTag", "TagFound", "TagMounted"}

C40_SignalsFollowState ==
    /\ ~(tag_in_range_event /\ tag_out_of_range_event)
    /\ tag_in_range_event => device_state \in {"TagFound", "TagMounted"}
====
